---------------------------- MODULE Spec2Model ----------------------------
(***************************************************************************)
(* A model of dcmReader's parser/serializer (src/src/dcmReader).           *)
(*                                                                         *)
(* Text is modelled character by character: a Python str is a sequence of  *)
(* one-character strings, a file is a sequence of lines.  None is the      *)
(* empty tuple and a present optional value v is the one-element tuple     *)
(* <<v>>.  A number is a record                                            *)
(*     [t |-> "int" | "float", sp |-> "fin" | "inf" | "nan",               *)
(*      neg |-> BOOLEAN, m |-> Nat, e |-> Int]                             *)
(* standing for (-1)^neg * m * 10^e, with m not a multiple of 10 unless    *)
(* m = 0 (then e = 0).  For literals of at most 15 significant digits      *)
(* this is exactly what float() followed by repr() observes; the binary    *)
(* rounding of longer literals and the overflow to inf are not modelled,   *)
(* and the digits of a literal without its trailing zeros must fit an      *)
(* Int.  os.linesep is "\n", and splitlines() breaks at "\n" only.         *)
(***************************************************************************)
EXTENDS Integers, Sequences, FiniteSets, TLC

VARIABLES
    file,        \* the lines of the file being read, as far as they are fixed
    open,        \* TRUE while the environment may still append lines to file
    pos,         \* number of lines of file consumed by the reader
    pc,          \* where read() stands: "top", a block keyword, "returned", "raised", ...
    err,         \* the exception type when pc = "raised", "" otherwise
    self,        \* the DcmReader object's fields
    dcm_format,  \* read()'s local _dcm_format
    found,       \* read()'s local found_<element>, the element being built
    stx,         \* read()'s local stx
    sty,         \* read()'s local sty
    parameters,  \* read()'s local parameters
    log,         \* what the logger was handed, in order
    before,      \* the reader's fields when the running read() was called
    first,       \* the reader's fields after the first read(), once str() was taken
    arg,         \* the argument of convert_value when it is called on its own
    ret,         \* its result
    line_read,   \* the "" that readline() returned at the end of the file, while
                 \* the loop that called it has not looked at it; None otherwise
    disk         \* the file that write() has created, its name and its text; None
                 \* while write() has created no file

vars == <<file, open, pos, pc, err, self, dcm_format, found, stx, sty,
          parameters, log, before, first, arg, ret, line_read, disk>>

-----------------------------------------------------------------------------
(* Bounds of the model *)

\* most lines the environment appends to the first lines of a file
MaxLines == 5
\* longest token handed to convert_value on its own
MaxTokLen == 3
\* readline() calls the model follows once the file has ended inside a block
MaxEofReads == 2
\* the longest name of an element that is compared
MaxNameLen == 2
\* most numbers in a vector handed to _print_values
MaxValues == 13
\* most strings in a vector handed to _print_values
MaxTexts == 4

-----------------------------------------------------------------------------
(* Python values *)

None == <<>>
Some(v) == <<v>>
IsNone(o) == o = <<>>
Val(o) == o[1]

\* a raised exception as the result of a pure function
Raise(type) == [exc |-> type]
Return(v) == [exc |-> "", v |-> v]
Raised(r) == r.exc # ""

\* name = v, then the rest F of the function body, which uses the name; v is
\* evaluated once, as an assignment does
With(v, F(_)) == CHOOSE y \in {F(x) : x \in {v}} : TRUE

-----------------------------------------------------------------------------
(* str methods *)

Whitespace == {" ", "\t", "\n", "\r"}
Digit == {"0", "1", "2", "3", "4", "5", "6", "7", "8", "9"}

RECURSIVE lstrip(_, _)
lstrip(s, chars) ==
    IF s = <<>> THEN s
    ELSE IF Head(s) \in chars THEN lstrip(Tail(s), chars) ELSE s

RECURSIVE rstrip(_, _)
rstrip(s, chars) ==
    IF s = <<>> THEN s
    ELSE IF s[Len(s)] \in chars THEN rstrip(SubSeq(s, 1, Len(s) - 1), chars) ELSE s

\* s.strip(chars); s.strip() is strip(s, Whitespace)
strip(s, chars) == rstrip(lstrip(s, chars), chars)

startswith(s, prefix) ==
    Len(s) >= Len(prefix) /\ SubSeq(s, 1, Len(prefix)) = prefix

\* suffix is found somewhere in s
endswith_anywhere(s, suffix) ==
    \E i \in 0..(Len(s) - Len(suffix)) : SubSeq(s, i + 1, i + Len(suffix)) = suffix

endswith(s, suffix) ==
    Len(s) >= Len(suffix) /\ SubSeq(s, Len(s) - Len(suffix) + 1, Len(s)) = suffix

\* index of the first character of s that is in chars, 0 when there is none
find(s, chars) ==
    IF \E i \in 1..Len(s) : s[i] \in chars
    THEN CHOOSE i \in 1..Len(s) : s[i] \in chars /\ \A j \in 1..(i - 1) : s[j] \notin chars
    ELSE 0

\* s.split(" ", 1): one or two parts
split1(s) ==
    LET i == find(s, {" "})
    IN  IF i = 0 THEN <<s>> ELSE <<SubSeq(s, 1, i - 1), SubSeq(s, i + 1, Len(s))>>

\* s.split(): the maximal runs of non-whitespace characters
RECURSIVE split(_)
split(s) ==
    LET t == lstrip(s, Whitespace)
        i == find(t, Whitespace)
    IN  IF t = <<>> THEN <<>>
        ELSE IF i = 0 THEN <<t>>
        ELSE <<SubSeq(t, 1, i - 1)>> \o split(SubSeq(t, i, Len(t)))

\* "".join(parts)
RECURSIVE concat(_)
concat(parts) == IF parts = <<>> THEN <<>> ELSE Head(parts) \o concat(Tail(parts))

\* sep.join(parts)
RECURSIVE join(_, _)
join(sep, parts) ==
    IF parts = <<>> THEN <<>>
    ELSE IF Len(parts) = 1 THEN Head(parts)
    ELSE Head(parts) \o sep \o join(sep, Tail(parts))

\* the characters the model's texts are made of, in code-point order
Charset ==
    <<"\t", "\n", "\r", " ", "!", "\"", "*", "+", "-", ".", "/",
      "0", "1", "2", "3", "4", "5", "6", "7", "8", "9", "=", "@",
      "A", "B", "C", "D", "E", "F", "G", "H", "I", "J", "K", "L", "M",
      "N", "O", "P", "Q", "R", "S", "T", "U", "V", "W", "X", "Y", "Z", "_",
      "a", "b", "c", "d", "e", "f", "g", "h", "i", "j", "k", "l", "m",
      "n", "o", "p", "q", "r", "s", "t", "u", "v", "w", "x", "y", "z">>

ord(c) == CHOOSE i \in 1..Len(Charset) : Charset[i] = c

\* a < b for two str
RECURSIVE str_lt(_, _)
str_lt(a, b) ==
    IF b = <<>> THEN FALSE
    ELSE IF a = <<>> THEN TRUE
    ELSE IF Head(a) = Head(b) THEN str_lt(Tail(a), Tail(b))
    ELSE ord(Head(a)) < ord(Head(b))

\* s.lower() on the letters float() looks at
lower_char(c) ==
    CASE c = "I" -> "i" [] c = "N" -> "n" [] c = "F" -> "f" [] c = "A" -> "a"
      [] c = "T" -> "t" [] c = "Y" -> "y" [] c = "E" -> "e" [] OTHER -> c

lower(s) == [i \in 1..Len(s) |-> lower_char(s[i])]

\* s.splitlines(True): the lines of s, each with its line break
RECURSIVE splitlines_keep(_)
splitlines_keep(s) ==
    LET i == find(s, {"\n"})
    IN  IF s = <<>> THEN <<>>
        ELSE IF i = 0 THEN <<s>>
        ELSE <<SubSeq(s, 1, i)>> \o splitlines_keep(SubSeq(s, i + 1, Len(s)))

\* the lines a text file holding s yields, each with its line break
file_lines(s) == splitlines_keep(s)

-----------------------------------------------------------------------------
(* Numbers: float(), int(), is_integer(), str() *)

digit_value(c) ==
    CASE c = "0" -> 0 [] c = "1" -> 1 [] c = "2" -> 2 [] c = "3" -> 3 [] c = "4" -> 4
      [] c = "5" -> 5 [] c = "6" -> 6 [] c = "7" -> 7 [] c = "8" -> 8 [] c = "9" -> 9

digit_char(d) == <<"0", "1", "2", "3", "4", "5", "6", "7", "8", "9">>[d + 1]

\* value of a string of digits (underscores skipped)
RECURSIVE digits_value(_)
digits_value(d) ==
    IF d = <<>> THEN 0
    ELSE IF d[Len(d)] = "_" THEN digits_value(SubSeq(d, 1, Len(d) - 1))
    ELSE 10 * digits_value(SubSeq(d, 1, Len(d) - 1)) + digit_value(d[Len(d)])

\* the decimal digits of n >= 0
RECURSIVE digits_of(_)
digits_of(n) ==
    IF n < 10 THEN <<digit_char(n)>> ELSE digits_of(n \div 10) \o <<digit_char(n % 10)>>

zeros(n) == [i \in 1..n |-> "0"]

\* a digit part of a numeric literal: digits, single underscores only between digits
digit_part(d) ==
    /\ d # <<>>
    /\ \A i \in 1..Len(d) : d[i] \in Digit \cup {"_"}
    /\ d[1] # "_" /\ d[Len(d)] # "_"
    /\ \A i \in 1..(Len(d) - 1) : ~(d[i] = "_" /\ d[i + 1] = "_")

\* m * 10^e with the trailing zeros of m moved into e
RECURSIVE normalize(_, _)
normalize(m, e) ==
    IF m = 0 THEN [m |-> 0, e |-> 0]
    ELSE IF m % 10 = 0 THEN normalize(m \div 10, e + 1)
    ELSE [m |-> m, e |-> e]

Num(t, neg, m, e) ==
    LET n == normalize(m, e)
    IN  [t |-> t, sp |-> "fin", neg |-> neg, m |-> n.m, e |-> n.e]

Special(sp, neg) == [t |-> "float", sp |-> sp, neg |-> neg, m |-> 0, e |-> 0]

IntNum(n) == Num("int", n < 0, IF n < 0 THEN -n ELSE n, 0)

\* float(s): Return(number of type float) or Raise("ValueError"); the trailing
\* zeros of the digits go to the exponent before the value is computed
float(s) ==
    With(strip(s, Whitespace), LAMBDA t :
    With(IF t # <<>> /\ t[1] \in {"+", "-"} THEN Tail(t) ELSE t, LAMBDA u :
    With(find(u, {"e", "E"}), LAMBDA ie :
    With(IF ie = 0 THEN u ELSE SubSeq(u, 1, ie - 1), LAMBDA mant :
    With(IF ie = 0 THEN <<>> ELSE SubSeq(u, ie + 1, Len(u)), LAMBDA expo :
    With(IF expo # <<>> /\ expo[1] \in {"+", "-"} THEN Tail(expo) ELSE expo, LAMBDA edig :
    With(find(mant, {"."}), LAMBDA id :
    With(IF id = 0 THEN mant ELSE SubSeq(mant, 1, id - 1), LAMBDA ip :
    With(IF id = 0 THEN <<>> ELSE SubSeq(mant, id + 1, Len(mant)), LAMBDA fp :
        LET neg  == t # <<>> /\ t[1] = "-"
            eneg == expo # <<>> /\ expo[1] = "-"
            fpd  == SelectSeq(fp, LAMBDA c : c # "_")
            sig  == rstrip(SelectSeq(ip \o fp, LAMBDA c : c # "_"), {"0"})
            tz   == Len(SelectSeq(ip \o fp, LAMBDA c : c # "_")) - Len(sig)
            ok   == /\ ip # <<>> \/ fp # <<>>
                    /\ ip = <<>> \/ digit_part(ip)
                    /\ fp = <<>> \/ digit_part(fp)
                    /\ ie = 0 \/ digit_part(edig)
            ev   == IF ie = 0 THEN 0
                    ELSE IF eneg THEN -digits_value(edig) ELSE digits_value(edig)
        IN  IF lower(u) \in {<<"i", "n", "f">>, <<"i", "n", "f", "i", "n", "i", "t", "y">>}
            THEN Return(Special("inf", neg))
            ELSE IF lower(u) = <<"n", "a", "n">> THEN Return(Special("nan", neg))
            ELSE IF ok THEN Return(Num("float", neg, digits_value(sig), ev - Len(fpd) + tz))
            ELSE Raise("ValueError"))))))))))

\* x.is_integer()
is_integer(x) == x.sp = "fin" /\ x.e >= 0

\* int(x) for a float x with x.is_integer()
int(x) == [x EXCEPT !.t = "int", !.neg = x.neg /\ x.m # 0]

\* a == b for two numbers
num_eq(a, b) ==
    /\ a.sp # "nan" /\ b.sp # "nan"
    /\ a.sp = b.sp /\ a.m = b.m /\ a.e = b.e
    /\ (a.neg = b.neg \/ (a.sp = "fin" /\ a.m = 0))

\* repr() of a finite float: the shortest digits, positional when the decimal
\* point falls within [-4, 16], otherwise with an exponent of at least two digits
float_repr(x) ==
    LET d     == digits_of(x.m)
        n     == Len(d)
        decpt == n + x.e
        sign  == IF x.neg THEN <<"-">> ELSE <<>>
        ex    == decpt - 1
        exd   == digits_of(IF ex < 0 THEN -ex ELSE ex)
    IN  IF x.m = 0 THEN sign \o <<"0", ".", "0">>
        ELSE IF decpt <= -4 \/ decpt > 16
        THEN sign \o <<d[1]>> \o (IF n > 1 THEN <<".">> \o Tail(d) ELSE <<>>)
             \o <<"e">> \o (IF ex < 0 THEN <<"-">> ELSE <<"+">>)
             \o (IF Len(exd) < 2 THEN <<"0">> ELSE <<>>) \o exd
        ELSE IF decpt <= 0 THEN sign \o <<"0", ".">> \o zeros(-decpt) \o d
        ELSE IF decpt >= n THEN sign \o d \o zeros(decpt - n) \o <<".", "0">>
        ELSE sign \o SubSeq(d, 1, decpt) \o <<".">> \o SubSeq(d, decpt + 1, n)

\* str(x) for a number
num_str(x) ==
    IF x.sp = "inf" THEN (IF x.neg THEN <<"-">> ELSE <<>>) \o <<"i", "n", "f">>
    ELSE IF x.sp = "nan" THEN <<"n", "a", "n">>
    ELSE IF x.t = "int"
    THEN (IF x.neg THEN <<"-">> ELSE <<>>) \o digits_of(x.m) \o zeros(x.e)
    ELSE float_repr(x)

-----------------------------------------------------------------------------
(* The keywords of the format *)

\* every keyword the reader tests a line against, as a string
kw ==
    [KONSERVIERUNG_FORMAT |-> <<"K", "O", "N", "S", "E", "R", "V", "I", "E", "R", "U",
             "N", "G", "_", "F", "O", "R", "M", "A", "T">>,
     FUNKTIONEN |-> <<"F", "U", "N", "K", "T", "I", "O", "N", "E", "N">>,
     END |-> <<"E", "N", "D">>,
     FKT |-> <<"F", "K", "T">>,
     FESTWERT_sp |-> <<"F", "E", "S", "T", "W", "E", "R", "T", " ">>,
     FESTWERT |-> <<"F", "E", "S", "T", "W", "E", "R", "T">>,
     FESTWERTEBLOCK |-> <<"F", "E", "S", "T", "W", "E", "R", "T", "E", "B", "L", "O",
             "C", "K">>,
     KENNLINIE |-> <<"K", "E", "N", "N", "L", "I", "N", "I", "E">>,
     FESTKENNLINIE |-> <<"F", "E", "S", "T", "K", "E", "N", "N", "L", "I", "N", "I", "E">>,
     GRUPPENKENNLINIE |-> <<"G", "R", "U", "P", "P", "E", "N", "K", "E", "N", "N", "L",
             "I", "N", "I", "E">>,
     KENNFELD |-> <<"K", "E", "N", "N", "F", "E", "L", "D">>,
     FESTKENNFELD |-> <<"F", "E", "S", "T", "K", "E", "N", "N", "F", "E", "L", "D">>,
     GRUPPENKENNFELD |-> <<"G", "R", "U", "P", "P", "E", "N", "K", "E", "N", "N", "F",
             "E", "L", "D">>,
     STUETZSTELLENVERTEILUNG |-> <<"S", "T", "U", "E", "T", "Z", "S", "T", "E", "L",
             "L", "E", "N", "V", "E", "R", "T", "E", "I", "L", "U", "N", "G">>,
     LANGNAME |-> <<"L", "A", "N", "G", "N", "A", "M", "E">>,
     DISPLAYNAME |-> <<"D", "I", "S", "P", "L", "A", "Y", "N", "A", "M", "E">>,
     FUNKTION |-> <<"F", "U", "N", "K", "T", "I", "O", "N">>,
     WERT |-> <<"W", "E", "R", "T">>,
     EINHEIT_W |-> <<"E", "I", "N", "H", "E", "I", "T", "_", "W">>,
     EINHEIT_X |-> <<"E", "I", "N", "H", "E", "I", "T", "_", "X">>,
     EINHEIT_Y |-> <<"E", "I", "N", "H", "E", "I", "T", "_", "Y">>,
     VAR |-> <<"V", "A", "R">>,
     TEXT |-> <<"T", "E", "X", "T">>,
     STX |-> <<"S", "T", "/", "X">>,
     STY |-> <<"S", "T", "/", "Y">>,
     SSTX |-> <<"S", "S", "T", "X">>,
     SSTY |-> <<"S", "S", "T", "Y">>]

\* read()'s comment_qualifier
comment_qualifier == {"!", "*", "."}

\* os.linesep
linesep == <<"\n">>

\* line.startswith(comment_qualifier)
is_comment(line) == line # <<>> /\ line[1] \in comment_qualifier

-----------------------------------------------------------------------------
(* The regular expressions of read() and parse_variant(), each as re.search  *)
(* evaluates it: leftmost start, then greedy and lazy parts in their order.  *)
(* A result is None or Some(groups), a group being None or Some(str).        *)

\* the positions at which word occurs in s
occurrences(s, word) ==
    {p \in 1..Len(s) : p + Len(word) - 1 <= Len(s) /\ SubSeq(s, p, p + Len(word) - 1) = word}

\* the index of the first character from position i on that is not in chars
\* (Len(s) + 1 when there is none)
skip(s, i, chars) ==
    IF \E j \in i..Len(s) : s[j] \notin chars
    THEN CHOOSE j \in i..Len(s) : s[j] \notin chars /\ \A k \in i..(j - 1) : s[k] \in chars
    ELSE Len(s) + 1

\* \s+(\d+) matched at position c: 0 when it does not match, else the position
\* after the digits
ws_digits(s, c) ==
    With(skip(s, c, Whitespace), LAMBDA d :
        IF c <= Len(s) /\ s[c] \in Whitespace /\ d <= Len(s) /\ s[d] \in Digit
        THEN skip(s, d, Digit) ELSE 0)

\* the tail \s+(\d+) (ndims = 1) or \s+(\d+)\s+(\d+) (ndims = 2) matched at c
dims_at(s, c, ndims) ==
    With(ws_digits(s, c), LAMBDA e1 :
    With(IF e1 = 0 THEN 0 ELSE ws_digits(s, e1), LAMBDA e2 :
    With(skip(s, c, Whitespace), LAMBDA d1 :
        IF e1 = 0 \/ (ndims = 2 /\ e2 = 0) THEN None
        ELSE IF ndims = 1 THEN Some(<<SubSeq(s, d1, e1 - 1)>>)
        ELSE Some(<<SubSeq(s, d1, e1 - 1), SubSeq(s, skip(s, e1, Whitespace), e2 - 1)>>))))

\* KEYWORD\s+(.*?)\s+(\d+)[\s+(\d+)] tried at the occurrence of keyword at p
block_match_at(s, keyword, p, ndims) ==
    With(p + Len(keyword), LAMBDA q :
    With(skip(s, q, Whitespace), LAMBDA a :
    With({c \in a..Len(s) : dims_at(s, c, ndims) # None}, LAMBDA cs :
        IF q > Len(s) \/ s[q] \notin Whitespace THEN None
        ELSE IF cs # {}
        THEN With(CHOOSE x \in cs : \A y \in cs : x <= y, LAMBDA c :
                 Some([name |-> SubSeq(s, a, c - 1), dims |-> Val(dims_at(s, c, ndims)),
                       at |-> c]))
        ELSE IF a - q >= 2 /\ dims_at(s, a - 1, ndims) # None
        THEN Some([name |-> <<>>, dims |-> Val(dims_at(s, a - 1, ndims)), at |-> a - 1])
        ELSE None)))

\* re.search(r"KEYWORD\s+(.*?)\s+(\d+)", s) and, with ndims = 2,
\* re.search(r"KEYWORD\s+(.*?)\s+(\d+)\s+(\d+)", s)
block_search(s, keyword, ndims) ==
    With({p \in occurrences(s, keyword) : block_match_at(s, keyword, p, ndims) # None},
         LAMBDA ps :
             IF ps = {} THEN None
             ELSE block_match_at(s, keyword, CHOOSE x \in ps : \A y \in ps : x <= y, ndims))

\* re.search(r"FESTWERTEBLOCK\s+(.*?)\s+(\d+)(?:\s+\@\s+(\d+))?", s):
\* name, x and the optional y
festwerteblock_search(s) ==
    With(block_search(s, kw.FESTWERTEBLOCK, 1), LAMBDA m :
        IF m = None THEN None
        ELSE With(ws_digits(s, Val(m).at), LAMBDA e1 :
             With(skip(s, e1, Whitespace), LAMBDA at :
             With(IF e1 <= Len(s) /\ s[e1] \in Whitespace /\ at <= Len(s) /\ s[at] = "@"
                  THEN ws_digits(s, at + 1) ELSE 0, LAMBDA e2 :
                 Some([name |-> Val(m).name, x |-> Val(m).dims[1],
                       y |-> IF e2 = 0 THEN None
                             ELSE Some(SubSeq(s, skip(s, at + 1, Whitespace), e2 - 1))])))))

\* re.search(r"(\d\.\d)", s)
format_search(s) ==
    With({p \in 1..(Len(s) - 2) : s[p] \in Digit /\ s[p + 1] = "." /\ s[p + 2] \in Digit},
         LAMBDA ps :
             IF ps = {} THEN None
             ELSE With(CHOOSE x \in ps : \A y \in ps : x <= y, LAMBDA p :
                      Some(SubSeq(s, p, p + 2))))

\* re.search(r"FKT (.*?)(?: \"(.*?)?\"(?: \"(.*?)?\")?)?$", s): name, version
\* and description.  The name is the shortest text after which the quoted part
\* can end the line, the version the shortest up to a quote that ends the line
\* or is followed by a quoted description that ends it.
function_search(s) ==
    With(occurrences(s, kw.FKT \o <<" ">>), LAMBDA ps :
        IF ps = {} THEN None
        ELSE
        With(SubSeq(s, (CHOOSE x \in ps : \A y \in ps : x <= y) + 4, Len(s)), LAMBDA r :
            LET n == Len(r)
                \* the version's closing quote at c ends the match
                closes(c) ==
                    /\ r[c] = "\""
                    /\ \/ c = n
                       \/ n >= c + 3 /\ r[c + 1] = " " /\ r[c + 2] = "\"" /\ r[n] = "\""
                \* with a name of length l, the positions of a closing quote
                quotes(l) ==
                    IF l + 2 <= n /\ r[l + 1] = " " /\ r[l + 2] = "\""
                    THEN {c \in (l + 3)..n : closes(c)} ELSE {}
            IN  With({l \in 0..n : quotes(l) # {}}, LAMBDA ls :
                    IF ls = {}
                    THEN Some([name |-> r, version |-> None, description |-> None])
                    ELSE
                    With(CHOOSE x \in ls : \A y \in ls : x <= y, LAMBDA l :
                    With(CHOOSE x \in quotes(l) : \A y \in quotes(l) : x <= y, LAMBDA c :
                        Some([name |-> SubSeq(r, 1, l),
                              version |-> Some(SubSeq(r, l + 3, c - 1)),
                              description |-> IF c = n THEN None
                                              ELSE Some(SubSeq(r, c + 3, n - 1))]))))))

\* re.search(r"VAR\s+(.*?)=(.*)", s): name and value
variant_search(s) ==
    LET ok(p) == /\ p + 3 <= Len(s) /\ s[p + 3] \in Whitespace
                 /\ \E i \in skip(s, p + 3, Whitespace)..Len(s) : s[i] = "="
    IN  With({p \in occurrences(s, kw.VAR) : ok(p)}, LAMBDA ps :
            IF ps = {} THEN None
            ELSE
            With(skip(s, (CHOOSE x \in ps : \A y \in ps : x <= y) + 3, Whitespace), LAMBDA a :
            With(a - 1 + find(SubSeq(s, a, Len(s)), {"="}), LAMBDA eq :
                Some(<<SubSeq(s, a, eq - 1), SubSeq(s, eq + 1, Len(s))>>))))

\* re.search(r"SSTX\s+(.*)", s) and re.search(r"SSTY\s+(.*)", s): the group
mapping_search(s, word) ==
    With({p \in occurrences(s, word) :
             p + Len(word) <= Len(s) /\ s[p + Len(word)] \in Whitespace}, LAMBDA ps :
        IF ps = {} THEN None
        ELSE With(CHOOSE x \in ps : \A y \in ps : x <= y, LAMBDA p :
                 Some(SubSeq(s, skip(s, p + Len(word), Whitespace), Len(s)))))

-----------------------------------------------------------------------------
(* DcmReader: the converters *)

\* convert_value with the test for a decimal point left out
convert_value_no_point(value) ==
    With(float(value), LAMBDA f :
        IF Raised(f) THEN Raise("ValueError")
        ELSE IF is_integer(f.v) THEN Return(int(f.v))
        ELSE Return(f.v))

\* DcmReader.convert_value(value)
convert_value(value) ==
    With(float(value), LAMBDA f :
        IF Raised(f) THEN Raise("ValueError")
        ELSE IF is_integer(f.v) /\ "." \notin {value[i] : i \in 1..Len(value)}
        THEN Return(int(f.v))
        ELSE Return(f.v))

\* a variant's value: a number or a str
NumVal(n) == [k |-> "num", n |-> n, s |-> <<>>]
StrVal(s) == [k |-> "str", n |-> IntNum(0), s |-> s]

\* the Python int a number of type int stands for
RECURSIVE pow10(_)
pow10(e) == IF e = 0 THEN 1 ELSE 10 * pow10(e - 1)

to_int(x) == (IF x.neg THEN -1 ELSE 1) * x.m * pow10(x.e)

\* DcmReader.parse_string(line)
parse_string(line) ==
    With(split1(line), LAMBDA parts :
        IF Len(parts) < 2 THEN Raise("IndexError")
        ELSE Return(strip(parts[2], {" ", "\""})))

\* convert_all that leaves out the tokens convert_value rejects
RECURSIVE convert_all_skipping(_)
convert_all_skipping(tokens) ==
    IF tokens = <<>> THEN Return(<<>>)
    ELSE With(convert_value(Head(tokens)), LAMBDA h :
             With(convert_all_skipping(Tail(tokens)), LAMBDA r :
                 IF Raised(h) THEN r ELSE Return(<<h.v>> \o r.v)))

\* [self.convert_value(i) for i in parameters]: the first failure is raised
RECURSIVE convert_all(_)
convert_all(tokens) ==
    IF tokens = <<>> THEN Return(<<>>)
    ELSE With(convert_value(Head(tokens)), LAMBDA h :
             IF Raised(h) THEN h
             ELSE With(convert_all(Tail(tokens)), LAMBDA r :
                      IF Raised(r) THEN r ELSE Return(<<h.v>> \o r.v)))

\* DcmReader.parse_block_parameters(line)
parse_block_parameters(line) ==
    With(split1(line), LAMBDA parts :
        IF Len(parts) < 2 THEN Raise("IndexError")
        ELSE convert_all(split(join(<<" ">>, split(parts[2])))))

\* parse_variant that lets the ValueError of convert_value pass
parse_variant_strict(line) ==
    With(variant_search(strip(line, Whitespace)), LAMBDA variant :
        IF variant = None THEN Raise("AttributeError")
        ELSE With(convert_value(strip(Val(variant)[2], Whitespace)), LAMBDA value :
                 IF Raised(value) THEN value
                 ELSE Return([k |-> strip(Val(variant)[1], Whitespace), v |-> NumVal(value.v)])))

\* DcmReader.parse_variant(line): the one entry [k |-> name, v |-> value]
parse_variant(line) ==
    With(variant_search(strip(line, Whitespace)), LAMBDA variant :
        IF variant = None THEN Raise("AttributeError")
        ELSE With(convert_value(strip(Val(variant)[2], Whitespace)), LAMBDA value :
                 Return([k |-> strip(Val(variant)[1], Whitespace),
                         v |-> IF Raised(value)
                               THEN StrVal(strip(Val(variant)[2], {"\"", " "}))
                               ELSE NumVal(value.v)])))

-----------------------------------------------------------------------------
(* dict: a sequence of entries [k, v] in insertion order *)

str_eq(a, b) == a = b

\* the index of key k in d, 0 when it is not a key
dict_index(d, k, eq(_, _)) ==
    IF \E i \in 1..Len(d) : eq(d[i].k, k)
    THEN CHOOSE i \in 1..Len(d) : eq(d[i].k, k) ELSE 0

\* d[k] = v: a new key goes last, an old key keeps its place and its key object
dict_put(d, k, v, eq(_, _)) ==
    LET i == dict_index(d, k, eq)
    IN  IF i = 0 THEN Append(d, [k |-> k, v |-> v]) ELSE [d EXCEPT ![i].v = v]

\* dict(zip(ks, vs)) with every key given the first value
dict_zip_first(ks, vs) ==
    [i \in 1..(IF Len(ks) < Len(vs) THEN Len(ks) ELSE Len(vs)) |-> [k |-> ks[i], v |-> vs[1]]]

\* dict(zip(ks, vs)) that stops one pair early
dict_zip_short(ks, vs) ==
    [i \in 1..((IF Len(ks) < Len(vs) THEN Len(ks) ELSE Len(vs)) - 1) |-> [k |-> ks[i], v |-> vs[i]]]

\* dict(zip(ks, vs)) for numeric keys
RECURSIVE dict_zip(_, _)
dict_zip(ks, vs) ==
    IF ks = <<>> \/ vs = <<>> THEN <<>>
    ELSE LET n == IF Len(ks) < Len(vs) THEN Len(ks) ELSE Len(vs)
         IN  dict_put(dict_zip(SubSeq(ks, 1, n - 1), SubSeq(vs, 1, n - 1)),
                      ks[n], vs[n], num_eq)

-----------------------------------------------------------------------------
(* The element classes: their constructors *)

\* an element record carries its class in cls
\* DcmFunction(name, version, description)
DcmFunction(name, version, description) ==
    [name |-> name, version |-> version, description |-> description]

\* DcmParameter(name)
DcmParameter(name) ==
    [cls |-> "DcmParameter", name |-> name, value |-> None, description |-> None, display_name |-> None,
     variants |-> <<>>, function |-> None, unit |-> None, text |-> None,
     comment |-> None]

\* DcmParameterBlock(name)
DcmParameterBlock(name) ==
    [cls |-> "DcmParameterBlock", name |-> name, values |-> <<>>, description |-> None, display_name |-> None,
     variants |-> <<>>, function |-> None, unit |-> None,
     x_dimension |-> IntNum(0), y_dimension |-> IntNum(0), comment |-> None]

\* DcmCharacteristicLine(name), and its subclasses through cls: the subclass
\* DcmGroupCharacteristicLine sets _type_name, DcmFixedCharacteristicLine does not
DcmCharacteristicLine(cls, name) ==
    [cls |-> cls, name |-> name, values |-> <<>>, description |-> None,
     display_name |-> None, variants |-> <<>>, function |-> None, unit_x |-> None,
     unit_values |-> None, x_dimension |-> IntNum(0), x_mapping |-> None,
     comment |-> None,
     type_name |-> IF cls = "DcmGroupCharacteristicLine" THEN kw.GRUPPENKENNLINIE
                   ELSE kw.KENNLINIE]

\* DcmCharacteristicMap(name), and its subclasses through cls: the subclass
\* DcmFixedCharacteristicMap sets _type_name, DcmGroupCharacteristicMap does not
DcmCharacteristicMap(cls, name) ==
    [cls |-> cls, name |-> name, values |-> <<>>, description |-> None,
     display_name |-> None, variants |-> <<>>, function |-> None, unit_x |-> None,
     unit_y |-> None, unit_values |-> None, x_dimension |-> IntNum(0),
     y_dimension |-> IntNum(0), x_mapping |-> None, y_mapping |-> None,
     comment |-> None,
     type_name |-> IF cls = "DcmFixedCharacteristicMap" THEN kw.FESTKENNFELD
                   ELSE kw.KENNFELD]

\* DcmDistribution(name)
DcmDistribution(name) ==
    [cls |-> "DcmDistribution", name |-> name, values |-> <<>>, description |-> None, display_name |-> None,
     variants |-> <<>>, function |-> None, unit_x |-> None,
     x_dimension |-> IntNum(0), comment |-> None]

\* DcmReader()
DcmReader ==
    [file_header |-> <<>>, file_header_finished |-> FALSE,
     functions_list |-> <<>>, parameter_list |-> <<>>, block_parameter_list |-> <<>>,
     characteristic_line_list |-> <<>>, fixed_characteristic_line_list |-> <<>>,
     group_characteristic_line_list |-> <<>>, characteristic_map_list |-> <<>>,
     fixed_characteristic_map_list |-> <<>>, group_characteristic_map_list |-> <<>>,
     distribution_list |-> <<>>]

\* the per-kind collections of elements, in the order __str__ takes them
ElementLists ==
    <<"parameter_list", "block_parameter_list", "characteristic_line_list",
      "fixed_characteristic_line_list", "group_characteristic_line_list",
      "characteristic_map_list", "fixed_characteristic_map_list",
      "group_characteristic_map_list", "distribution_list">>

-----------------------------------------------------------------------------
(* DcmReader.read: what one line does to the reader and to read()'s locals.  *)
(* A frame holds them; each operator below returns the frame after the line. *)

Frame ==
    [pc |-> pc, err |-> err, self |-> self, dcm_format |-> dcm_format,
     found |-> found, stx |-> stx, sty |-> sty, parameters |-> parameters,
     log |-> log]

\* an exception leaves read()
raise(f, type) == [f EXCEPT !.pc = "raised", !.err = type]

\* logged that aborts read() instead of writing to the log
logged_fatal(f, level, msg, about) == [f EXCEPT !.pc = "raised", !.err = "Exception"]

\* logger.warning / logger.error
logged(f, level, msg, about) ==
    [f EXCEPT !.log = Append(@, [level |-> level, msg |-> msg, about |-> about])]

\* found.<field> = self.parse_string(line)
set_string(f, field, line) ==
    With(parse_string(line), LAMBDA r :
        IF Raised(r) THEN raise(f, r.exc)
        ELSE [f EXCEPT !.found = Some([Val(@) EXCEPT ![field] = Some(r.v)])])

\* found.variants.update(self.parse_variant(line))
set_variant(f, line) ==
    With(parse_variant(line), LAMBDA r :
        IF Raised(r) THEN raise(f, r.exc)
        ELSE [f EXCEPT !.found =
                 Some([Val(@) EXCEPT !.variants = dict_put(@, r.v.k, r.v.v, str_eq)])])

\* the block comment grows by line[1:].strip() + os.linesep
add_comment(f, line) ==
    LET text == strip(Tail(line), Whitespace) \o linesep
    IN  [f EXCEPT !.found =
            Some([Val(@) EXCEPT !.comment =
                     IF @ = None THEN Some(text) ELSE Some(Val(@) \o text)])]

\* the local is set to the numbers of the line, what it held is dropped
extend_local_last(f, local, line) ==
    With(parse_block_parameters(line), LAMBDA r :
        IF Raised(r) THEN raise(f, r.exc)
        ELSE [f EXCEPT ![local] = Some(r.v)])

\* parameters.extend(...) / stx.extend(...) of the characteristic lines and
\* stx.extend(...) of the maps
extend_local(f, local, line) ==
    With(parse_block_parameters(line), LAMBDA r :
        IF Raised(r) THEN raise(f, r.exc)
        ELSE [f EXCEPT ![local] = Some(Val(@) \o r.v)])

\* close_block with the append left out
close_block_no_append(f, list) == [f EXCEPT !.pc = "top"]

\* the block's element goes to its collection and read() is back at top level
close_block(f, list) ==
    [f EXCEPT !.self[list] = Append(@, Val(f.found)), !.pc = "top"]

\* a line of the FUNKTIONEN list; raw is the line as readline() returned it
funktionen_line(f, raw) ==
    LET function_match == function_search(strip(raw, Whitespace))
        m == Val(function_match)
    IN  IF startswith(raw, kw.END) THEN [f EXCEPT !.pc = "top"]
        ELSE IF function_match = None THEN raise(f, "AttributeError")
        ELSE [f EXCEPT !.self.functions_list =
                 Append(@, DcmFunction(m.name, m.version, m.description))]

\* a line of a FESTWERT block
festwert_line(f, line) ==
    IF startswith(line, kw.END) THEN close_block(f, "parameter_list")
    ELSE IF startswith(line, kw.LANGNAME) THEN set_string(f, "description", line)
    ELSE IF startswith(line, kw.DISPLAYNAME) THEN set_string(f, "display_name", line)
    ELSE IF startswith(line, kw.FUNKTION) THEN set_string(f, "function", line)
    ELSE IF startswith(line, kw.WERT)
    THEN With(split1(line), LAMBDA parts :
             IF Len(parts) < 2 THEN raise(f, "IndexError")
             ELSE With(convert_value(strip(parts[2], Whitespace)), LAMBDA r :
                      IF Raised(r) THEN raise(f, r.exc)
                      ELSE [f EXCEPT !.found = Some([Val(@) EXCEPT !.value = Some(r.v)])]))
    ELSE IF startswith(line, kw.EINHEIT_W) THEN set_string(f, "unit", line)
    ELSE IF startswith(line, kw.VAR) THEN set_variant(f, line)
    ELSE IF startswith(line, kw.TEXT) THEN set_string(f, "text", line)
    ELSE IF is_comment(line) THEN add_comment(f, line)
    ELSE logged(f, "warning", "Unknown parameter field", line)

\* a line of a FESTWERTEBLOCK block
festwerteblock_line(f, line) ==
    LET e == Val(f.found)
    IN  IF startswith(line, kw.END)
        THEN close_block(
                 IF Len(e.values) # to_int(e.y_dimension)
                 THEN logged(f, "error", "Y dimension do not match description", e.name)
                 ELSE f,
                 "block_parameter_list")
        ELSE IF startswith(line, kw.LANGNAME) THEN set_string(f, "description", line)
        ELSE IF startswith(line, kw.DISPLAYNAME) THEN set_string(f, "display_name", line)
        ELSE IF startswith(line, kw.FUNKTION) THEN set_string(f, "function", line)
        ELSE IF startswith(line, kw.WERT)
        THEN With(parse_block_parameters(line), LAMBDA r :
                 IF Raised(r) THEN raise(f, r.exc)
                 ELSE [(IF Len(r.v) # to_int(e.x_dimension)
                        THEN logged(f, "error", "X dimension do not match description",
                                    e.name)
                        ELSE f)
                          EXCEPT !.parameters = Some(r.v),
                                 !.found = Some([e EXCEPT !.values = Append(@, r.v)])])
        ELSE IF startswith(line, kw.EINHEIT_W) THEN set_string(f, "unit", line)
        ELSE IF startswith(line, kw.VAR) THEN set_variant(f, line)
        ELSE IF is_comment(line) THEN add_comment(f, line)
        ELSE logged(f, "warning", "Unknown parameter field", line)

\* a line of a KENNLINIE, FESTKENNLINIE or GRUPPENKENNLINIE block; the three
\* loops differ in the collection and in the order of the two END messages
characteristic_line_line(f, line, list) ==
    LET e  == Val(f.found)
        xs == Val(f.stx)
        ps == Val(f.parameters)
        x_bad == Len(xs) # to_int(e.x_dimension)
        p_bad == Len(ps) # to_int(e.x_dimension)
        fx(g) == IF x_bad THEN logged(g, "error", "X dimension do not match description", e.name)
                 ELSE g
        fp(g) == IF p_bad THEN logged(g, "error", "Values dimension do not match description", e.name)
                 ELSE g
        checked == IF list = "group_characteristic_line_list" THEN fx(fp(f)) ELSE fp(fx(f))
    IN  IF startswith(line, kw.END)
        THEN close_block([checked EXCEPT !.found = Some([e EXCEPT !.values = dict_zip(xs, ps)])],
                         list)
        ELSE IF startswith(line, kw.LANGNAME) THEN set_string(f, "description", line)
        ELSE IF startswith(line, kw.DISPLAYNAME) THEN set_string(f, "display_name", line)
        ELSE IF startswith(line, kw.FUNKTION) THEN set_string(f, "function", line)
        ELSE IF startswith(line, kw.WERT) THEN extend_local(f, "parameters", line)
        ELSE IF startswith(line, kw.STX) THEN extend_local(f, "stx", line)
        ELSE IF startswith(line, kw.EINHEIT_W) THEN set_string(f, "unit_values", line)
        ELSE IF startswith(line, kw.EINHEIT_X) THEN set_string(f, "unit_x", line)
        ELSE IF startswith(line, kw.VAR) THEN set_variant(f, line)
        ELSE IF is_comment(line)
        THEN With(mapping_search(line, kw.SSTX), LAMBDA re_match :
                 IF re_match # None
                 THEN [f EXCEPT !.found = Some([e EXCEPT !.x_mapping = re_match])]
                 ELSE add_comment(f, line))
        ELSE logged(f, "warning", "Unknown parameter field", line)

\* a row of a map's values: a list of numbers while the block is read, and a
\* dict from x to number once END has paired it with stx
Row(isdict, items) == [isdict |-> isdict, items |-> items]
list_items(numbers) == [i \in 1..Len(numbers) |-> [k |-> None, v |-> numbers[i]]]
dict_items(d) == [i \in 1..Len(d) |-> [k |-> Some(d[i].k), v |-> d[i].v]]
row_values(row) == [i \in 1..Len(row.items) |-> row.items[i].v]

\* END of a map block: the messages, then each row of the declared length
\* becomes dict(zip(stx, entry)); any other row stays the list it is
RECURSIVE rows_checked(_, _, _)
rows_checked(f, e, i) ==
    IF i > Len(e.values) THEN f
    ELSE IF Len(e.values[i].v.items) # to_int(e.x_dimension)
    THEN rows_checked(logged(f, "error", "Values dimension does not match description", e.name),
                      e, i + 1)
    ELSE rows_checked(
             [f EXCEPT !.found = Some([Val(@) EXCEPT !.values[i].v =
                 Row(TRUE, dict_items(dict_zip(Val(f.stx), row_values(e.values[i].v))))])],
             e, i + 1)

\* a line of a KENNFELD, FESTKENNFELD or GRUPPENKENNFELD block
characteristic_map_line(f, line, list) ==
    LET e  == Val(f.found)
        f1 == IF Len(e.values) # to_int(e.y_dimension)
              THEN logged(f, "error", "Values dimension does not match description", e.name)
              ELSE f
        f2 == IF Len(Val(f.stx)) # to_int(e.x_dimension)
              THEN logged(f1, "error", "X dimension do not match description", e.name)
              ELSE f1
    IN  IF startswith(line, kw.END) THEN close_block(rows_checked(f2, e, 1), list)
        ELSE IF startswith(line, kw.LANGNAME) THEN set_string(f, "description", line)
        ELSE IF startswith(line, kw.DISPLAYNAME) THEN set_string(f, "display_name", line)
        ELSE IF startswith(line, kw.FUNKTION) THEN set_string(f, "function", line)
        ELSE IF startswith(line, kw.WERT)
        THEN IF f.stx = None \/ f.sty = None THEN raise(f, "ValueError")
             ELSE With(parse_block_parameters(line), LAMBDA r :
                      IF Raised(r) THEN raise(f, r.exc)
                      ELSE LET y == Val(f.sty)
                               i == dict_index(e.values, y, num_eq)
                               values == IF i = 0
                                         THEN Append(e.values,
                                                     [k |-> y, v |-> Row(FALSE, <<>>)])
                                         ELSE e.values
                               j == IF i = 0 THEN Len(e.values) + 1 ELSE i
                           IN  [f EXCEPT !.parameters = Some(r.v),
                                         !.found = Some([e EXCEPT !.values =
                                             [values EXCEPT ![j].v.items =
                                                 @ \o list_items(r.v)]])])
        ELSE IF startswith(line, kw.STX) THEN extend_local(f, "stx", line)
        ELSE IF startswith(line, kw.STY)
        THEN With(split1(line), LAMBDA parts :
                 IF Len(parts) < 2 THEN raise(f, "IndexError")
                 ELSE With(convert_value(strip(parts[2], Whitespace)), LAMBDA r :
                          IF Raised(r) THEN raise(f, r.exc)
                          ELSE [f EXCEPT !.sty = Some(r.v)]))
        ELSE IF startswith(line, kw.EINHEIT_W) THEN set_string(f, "unit_values", line)
        ELSE IF startswith(line, kw.EINHEIT_X) THEN set_string(f, "unit_x", line)
        ELSE IF startswith(line, kw.EINHEIT_Y) THEN set_string(f, "unit_y", line)
        ELSE IF startswith(line, kw.VAR) THEN set_variant(f, line)
        ELSE IF is_comment(line)
        THEN With(mapping_search(line, kw.SSTX), LAMBDA re_match_x :
             With(mapping_search(line, kw.SSTY), LAMBDA re_match_y :
                 IF re_match_x # None
                 THEN [f EXCEPT !.found = Some([e EXCEPT !.x_mapping = re_match_x])]
                 ELSE IF re_match_y # None
                 THEN [f EXCEPT !.found = Some([e EXCEPT !.y_mapping = re_match_y])]
                 ELSE add_comment(f, line)))
        ELSE logged(f, "warning", "Unknown parameter field", line)

\* a line of a STUETZSTELLENVERTEILUNG block
distribution_line(f, line) ==
    LET e == Val(f.found)
    IN  IF startswith(line, kw.END)
        THEN close_block(
                 IF Len(e.values) # to_int(e.x_dimension)
                 THEN logged(f, "error", "X dimension do not match description", e.name)
                 ELSE f,
                 "distribution_list")
        ELSE IF startswith(line, kw.LANGNAME) THEN set_string(f, "description", line)
        ELSE IF startswith(line, kw.DISPLAYNAME) THEN set_string(f, "display_name", line)
        ELSE IF startswith(line, kw.FUNKTION) THEN set_string(f, "function", line)
        ELSE IF startswith(line, kw.STX)
        THEN With(parse_block_parameters(line), LAMBDA r :
                 IF Raised(r) THEN raise(f, r.exc)
                 ELSE [f EXCEPT !.found = Some([e EXCEPT !.values = @ \o r.v])])
        ELSE IF startswith(line, kw.EINHEIT_X) THEN set_string(f, "unit_x", line)
        ELSE IF startswith(line, kw.VAR) THEN set_variant(f, line)
        ELSE IF is_comment(line) THEN add_comment(f, line)
        ELSE logged(f, "warning", "Unknown parameter field", line)

\* the opening line of a characteristic line block
open_line(f, line, word, cls) ==
    With(block_search(strip(line, Whitespace), kw[word], 1), LAMBDA re_match :
        IF re_match = None THEN raise(f, "AttributeError")
        ELSE [f EXCEPT !.found = Some([DcmCharacteristicLine(cls, Val(re_match).name) EXCEPT
                           !.x_dimension = convert_value(Val(re_match).dims[1]).v]),
                       !.parameters = Some(<<>>), !.stx = Some(<<>>),
                       !.pc = word])

\* the opening line of a characteristic map block
open_map(f, line, word, cls) ==
    With(block_search(strip(line, Whitespace), kw[word], 2), LAMBDA re_match :
        IF re_match = None THEN raise(f, "AttributeError")
        ELSE [f EXCEPT !.found = Some([DcmCharacteristicMap(cls, Val(re_match).name) EXCEPT
                           !.x_dimension = convert_value(Val(re_match).dims[1]).v,
                           !.y_dimension = convert_value(Val(re_match).dims[2]).v]),
                       !.stx = Some(<<>>), !.sty = None,
                       !.pc = word])

\* header_line with the test of _file_header_finished left out
header_line_always(f, line) ==
    [f EXCEPT !.self.file_header = @ \o strip(Tail(line), Whitespace) \o linesep]

\* a comment line at top level: it joins the file header until the header is
\* finished
header_line(f, line) ==
    IF ~f.self.file_header_finished
    THEN [f EXCEPT !.self.file_header = @ \o strip(Tail(line), Whitespace) \o linesep]
    ELSE f

\* format_line that reports a line without a format version instead of raising
format_line_lenient(f, line) ==
    With(format_search(strip(line, Whitespace)), LAMBDA re_match :
        IF re_match = None THEN logged(f, "warning", "Unknown line detected", line)
        ELSE [f EXCEPT !.dcm_format = Some(float(Val(re_match)).v)])

\* a line read while no format version is known
format_line(f, line) ==
    IF startswith(line, kw.KONSERVIERUNG_FORMAT)
    THEN With(format_search(strip(line, Whitespace)), LAMBDA re_match :
             IF re_match = None THEN raise(f, "AttributeError")
             ELSE [f EXCEPT !.dcm_format = Some(float(Val(re_match)).v)])
    ELSE raise(f, "Exception")

\* the if/elif chain that recognises the keyword opening a block
block_start(f, line) ==
    IF startswith(line, kw.FUNKTIONEN) THEN [f EXCEPT !.pc = "FUNKTIONEN"]
    ELSE IF startswith(line, kw.FESTWERT_sp)
    THEN [f EXCEPT !.found = Some(DcmParameter(parse_string(line).v)),
                   !.pc = "FESTWERT"]
    ELSE IF startswith(line, kw.FESTWERTEBLOCK)
    THEN With(festwerteblock_search(strip(line, Whitespace)), LAMBDA block_data :
             IF block_data = None THEN raise(f, "AttributeError")
             ELSE [f EXCEPT !.found = Some([DcmParameterBlock(Val(block_data).name) EXCEPT
                                !.x_dimension = convert_value(Val(block_data).x).v,
                                !.y_dimension =
                                    IF Val(block_data).y # None
                                    THEN convert_value(Val(Val(block_data).y)).v
                                    ELSE IntNum(1)]),
                            !.pc = "FESTWERTEBLOCK"])
    ELSE IF startswith(line, kw.KENNLINIE)
    THEN open_line(f, line, "KENNLINIE", "DcmCharacteristicLine")
    ELSE IF startswith(line, kw.FESTKENNLINIE)
    THEN open_line(f, line, "FESTKENNLINIE", "DcmFixedCharacteristicLine")
    ELSE IF startswith(line, kw.GRUPPENKENNLINIE)
    THEN open_line(f, line, "GRUPPENKENNLINIE", "DcmGroupCharacteristicLine")
    ELSE IF startswith(line, kw.KENNFELD \o <<" ">>)
    THEN open_map(f, line, "KENNFELD", "DcmCharacteristicMap")
    ELSE IF startswith(line, kw.FESTKENNFELD \o <<" ">>)
    THEN open_map(f, line, "FESTKENNFELD", "DcmFixedCharacteristicMap")
    ELSE IF startswith(line, kw.GRUPPENKENNFELD \o <<" ">>)
    THEN open_map(f, line, "GRUPPENKENNFELD", "DcmGroupCharacteristicMap")
    ELSE IF startswith(line, kw.STUETZSTELLENVERTEILUNG)
    THEN With(block_search(strip(line, Whitespace), kw.STUETZSTELLENVERTEILUNG, 1),
              LAMBDA re_match :
             IF re_match = None THEN raise(f, "AttributeError")
             ELSE [f EXCEPT !.found = Some([DcmDistribution(Val(re_match).name) EXCEPT
                                !.x_dimension = convert_value(Val(re_match).dims[1]).v]),
                            !.parameters = None, !.stx = None,
                            !.pc = "STUETZSTELLENVERTEILUNG"])
    ELSE logged(f, "warning", "Unknown line detected", line)

\* one pass of read()'s for loop up to the point where a block's own loop
\* starts; raw is the line the iteration yields
top_line(f, raw) ==
    With(strip(raw, Whitespace), LAMBDA line :
        IF is_comment(line) THEN header_line(f, line)
        ELSE IF line = <<>> THEN [f EXCEPT !.self.file_header_finished = TRUE]
        ELSE IF f.dcm_format = None
        THEN format_line([f EXCEPT !.self.file_header_finished = TRUE], line)
        ELSE block_start([f EXCEPT !.self.file_header_finished = TRUE], line))

-----------------------------------------------------------------------------
(* __str__ and __lt__ of the classes, sorted(), DcmReader.__str__ *)

\* the width to which the source's literals pad a keyword after two spaces
LabelWidth == 14

\* "  KEYWORD" padded with spaces, as every field line starts
label(word) == <<" ", " ">> \o word \o [i \in 1..(LabelWidth - Len(word)) |-> " "]

quoted(s) == <<"\"">> \o s \o <<"\"">>

\* if self.<field>: for a field that is None or a str
truthy(o) == o # None /\ Val(o) # <<>>

\* if self.value: for a value that is None or a number
truthy_number(o) == o # None /\ (Val(o).sp # "fin" \/ Val(o).m # 0)

\* str(o) for a field that is None or a str
str_or_None(o) == IF o = None THEN <<"N", "o", "n", "e">> ELSE Val(o)

\* for line in text.splitlines(True): value += f"* {line}"
starred(text) ==
    concat([i \in 1..Len(splitlines_keep(text)) |-> <<"*", " ">> \o splitlines_keep(text)[i]])

\* the block comment as __str__ writes it
comment_str(e) == IF truthy(e.comment) THEN starred(Val(e.comment)) ELSE <<>>

\* a quoted field line, written when the field is truthy
quoted_field(word, o) ==
    IF truthy(o) THEN label(word) \o quoted(Val(o)) \o <<"\n">> ELSE <<>>

\* the DISPLAYNAME line, written without quotes
display_name_str(e) ==
    IF truthy(e.display_name)
    THEN label(kw.DISPLAYNAME) \o Val(e.display_name) \o <<"\n">> ELSE <<>>

\* the *SSTX / *SSTY line
mapping_str(word, o) ==
    IF truthy(o) THEN <<"*">> \o word \o <<" ", " ", " ">> \o Val(o) \o <<"\n">> ELSE <<>>

\* str() of a variant's value
variant_str(v) == IF v.k = "num" THEN num_str(v.n) ELSE v.s

\* the VAR lines; DcmParameter quotes the values when its own value is falsy
variants_str(variants, quote) ==
    concat([i \in 1..Len(variants) |->
               label(kw.VAR) \o variants[i].k \o <<"=">>
               \o (IF quote THEN quoted(variant_str(variants[i].v))
                   ELSE variant_str(variants[i].v))
               \o <<"\n">>])

\* x_entries += f"{str(x)} " for every number, then x_entries.strip()
entries_str(numbers) ==
    strip(concat([i \in 1..Len(numbers) |-> num_str(numbers[i]) \o <<" ">>]), Whitespace)

\* DcmParameter.__str__
DcmParameter_str(e) ==
    kw.FESTWERT \o <<" ">> \o e.name \o <<"\n">>
    \o comment_str(e)
    \o quoted_field(kw.LANGNAME, e.description)
    \o quoted_field(kw.FUNKTION, e.function)
    \o display_name_str(e)
    \o quoted_field(kw.EINHEIT_W, e.unit)
    \o (IF truthy_number(e.value)
        THEN label(kw.WERT) \o num_str(Val(e.value)) \o <<"\n">> ELSE <<>>)
    \o quoted_field(kw.TEXT, e.text)
    \o variants_str(e.variants, ~truthy_number(e.value))
    \o kw.END

\* DcmParameterBlock.__str__
DcmParameterBlock_str(e) ==
    kw.FESTWERTEBLOCK \o <<" ">> \o e.name \o <<" ">> \o num_str(e.x_dimension)
    \o (IF to_int(e.y_dimension) > 1
        THEN <<" ", "@", " ">> \o num_str(e.y_dimension) \o <<"\n">> ELSE <<"\n">>)
    \o comment_str(e)
    \o quoted_field(kw.LANGNAME, e.description)
    \o quoted_field(kw.FUNKTION, e.function)
    \o display_name_str(e)
    \o quoted_field(kw.EINHEIT_W, e.unit)
    \o concat([i \in 1..Len(e.values) |->
                  label(kw.WERT)
                  \o join(<<" ">>, [j \in 1..Len(e.values[i]) |-> num_str(e.values[i][j])])
                  \o <<"\n">>])
    \o variants_str(e.variants, FALSE)
    \o kw.END

\* the ST/X and WERT lines of a characteristic line
line_values_str(values) ==
    IF values # <<>>
    THEN label(kw.STX) \o entries_str([i \in 1..Len(values) |-> values[i].k]) \o <<"\n">>
         \o label(kw.WERT) \o entries_str([i \in 1..Len(values) |-> values[i].v])
         \o <<"\n">>
    ELSE <<>>

\* DcmCharacteristicLine.__str__, inherited by DcmGroupCharacteristicLine
DcmCharacteristicLine_str(e) ==
    e.type_name \o <<" ">> \o e.name \o <<" ">> \o num_str(e.x_dimension) \o <<"\n">>
    \o comment_str(e)
    \o quoted_field(kw.LANGNAME, e.description)
    \o quoted_field(kw.FUNKTION, e.function)
    \o display_name_str(e)
    \o quoted_field(kw.EINHEIT_X, e.unit_x)
    \o quoted_field(kw.EINHEIT_W, e.unit_values)
    \o mapping_str(kw.SSTX, e.x_mapping)
    \o line_values_str(e.values)
    \o variants_str(e.variants, FALSE)
    \o kw.END

\* DcmFixedCharacteristicLine.__str__ left to the base class
DcmFixedCharacteristicLine_str_inherited(e) == DcmCharacteristicLine_str(e)

\* DcmFixedCharacteristicLine.__str__
DcmFixedCharacteristicLine_str(e) ==
    kw.FESTKENNLINIE \o <<" ">> \o e.name \o <<" ">> \o num_str(e.x_dimension) \o <<"\n">>
    \o quoted_field(kw.LANGNAME, e.description)
    \o quoted_field(kw.FUNKTION, e.function)
    \o display_name_str(e)
    \o quoted_field(kw.EINHEIT_X, e.unit_x)
    \o quoted_field(kw.EINHEIT_W, e.unit_values)
    \o line_values_str(e.values)
    \o variants_str(e.variants, FALSE)
    \o kw.END

\* the ST/X, ST/Y and WERT lines of a map whose rows are all dicts
map_values_str(values) ==
    concat([i \in 1..Len(values) |->
               (IF i = 1
                THEN label(kw.STX)
                     \o entries_str([j \in 1..Len(values[i].v.items) |->
                                        Val(values[i].v.items[j].k)])
                     \o <<"\n">>
                ELSE <<>>)
               \o label(kw.STY) \o strip(num_str(values[i].k), Whitespace) \o <<"\n">>
               \o label(kw.WERT) \o entries_str(row_values(values[i].v)) \o <<"\n">>])

\* map_values.items() fails on a row that is still a list
rows_are_dicts(values) == \A i \in 1..Len(values) : values[i].v.isdict

\* DcmCharacteristicMap.__str__, inherited by DcmFixedCharacteristicMap
DcmCharacteristicMap_str(e) ==
    IF ~rows_are_dicts(e.values) THEN Raise("AttributeError")
    ELSE Return(
        e.type_name \o <<" ">> \o e.name \o <<" ">> \o num_str(e.x_dimension)
        \o <<" ">> \o num_str(e.y_dimension) \o <<"\n">>
        \o comment_str(e)
        \o quoted_field(kw.LANGNAME, e.description)
        \o quoted_field(kw.FUNKTION, e.function)
        \o display_name_str(e)
        \o quoted_field(kw.EINHEIT_X, e.unit_x)
        \o quoted_field(kw.EINHEIT_Y, e.unit_y)
        \o quoted_field(kw.EINHEIT_W, e.unit_values)
        \o mapping_str(kw.SSTX, e.x_mapping)
        \o mapping_str(kw.SSTY, e.y_mapping)
        \o map_values_str(e.values)
        \o variants_str(e.variants, FALSE)
        \o kw.END)

\* DcmGroupCharacteristicMap.__str__
DcmGroupCharacteristicMap_str(e) ==
    IF ~rows_are_dicts(e.values) THEN Raise("AttributeError")
    ELSE Return(
        kw.GRUPPENKENNFELD \o <<" ">> \o e.name \o <<" ">> \o num_str(e.x_dimension)
        \o <<" ">> \o num_str(e.y_dimension) \o <<"\n">>
        \o quoted_field(kw.LANGNAME, e.description)
        \o quoted_field(kw.FUNKTION, e.function)
        \o display_name_str(e)
        \o quoted_field(kw.EINHEIT_X, e.unit_x)
        \o quoted_field(kw.EINHEIT_Y, e.unit_y)
        \o quoted_field(kw.EINHEIT_W, e.unit_values)
        \o map_values_str(e.values)
        \o variants_str(e.variants, FALSE)
        \o kw.END)

\* DcmDistribution.__str__
DcmDistribution_str(e) ==
    kw.STUETZSTELLENVERTEILUNG \o <<" ">> \o e.name \o <<" ">> \o num_str(e.x_dimension)
    \o <<"\n">>
    \o comment_str(e)
    \o quoted_field(kw.LANGNAME, e.description)
    \o quoted_field(kw.FUNKTION, e.function)
    \o display_name_str(e)
    \o quoted_field(kw.EINHEIT_X, e.unit_x)
    \o (IF e.values # <<>> THEN label(kw.STX) \o entries_str(e.values) \o <<"\n">>
        ELSE <<>>)
    \o variants_str(e.variants, FALSE)
    \o kw.END

\* DcmFunction.__str__
DcmFunction_str(e) ==
    kw.FKT \o <<" ">> \o e.name \o <<" ">> \o quoted(str_or_None(e.version))
    \o <<" ", " ">> \o quoted(str_or_None(e.description))

\* str(item) for an element: Return(str) or Raise
item_str(e) ==
    CASE e.cls = "DcmParameter" -> Return(DcmParameter_str(e))
      [] e.cls = "DcmParameterBlock" -> Return(DcmParameterBlock_str(e))
      [] e.cls \in {"DcmCharacteristicLine", "DcmGroupCharacteristicLine"} ->
             Return(DcmCharacteristicLine_str(e))
      [] e.cls = "DcmFixedCharacteristicLine" -> Return(DcmFixedCharacteristicLine_str(e))
      [] e.cls \in {"DcmCharacteristicMap", "DcmFixedCharacteristicMap"} ->
             DcmCharacteristicMap_str(e)
      [] e.cls = "DcmGroupCharacteristicMap" -> DcmGroupCharacteristicMap_str(e)
      [] e.cls = "DcmDistribution" -> Return(DcmDistribution_str(e))

\* a < b for two fields that are None or a str: "T", "F", or "E" for the
\* TypeError that a comparison with None raises
opt_lt(a, b) ==
    IF a = None \/ b = None THEN "E"
    ELSE IF str_lt(Val(a), Val(b)) THEN "T" ELSE "F"

\* __lt__ of every element class:
\* self.function < other.function and self.description < other.description
element_lt(a, b) ==
    IF opt_lt(a.function, b.function) = "T" THEN opt_lt(a.description, b.description)
    ELSE opt_lt(a.function, b.function)

\* DcmFunction.__lt__: self.name < other.name
DcmFunction_lt(a, b) == IF str_lt(a.name, b.name) THEN "T" ELSE "F"

\* a < b as sorted() asks it of two items of one list
lt(functions, a, b) == IF functions THEN DcmFunction_lt(a, b) ELSE element_lt(a, b)

\* sorted(): the leading run a[1..i-1], descending or not, is extended
RECURSIVE count_run(_, _, _, _)
count_run(a, functions, descending, i) ==
    IF i > Len(a) THEN Return([n |-> i - 1, descending |-> descending])
    ELSE With(lt(functions, a[i], a[i - 1]), LAMBDA c :
             IF c = "E" THEN Raise("TypeError")
             ELSE IF (c = "T") = descending THEN count_run(a, functions, descending, i + 1)
             ELSE Return([n |-> i - 1, descending |-> descending]))

\* sorted(): where pivot goes among the sorted a[l+1..r]
RECURSIVE bisect(_, _, _, _, _)
bisect(a, functions, pivot, l, r) ==
    IF l >= r THEN Return(l)
    ELSE With(lt(functions, pivot, a[l + (r - l) \div 2 + 1]), LAMBDA c :
             IF c = "E" THEN Raise("TypeError")
             ELSE IF c = "T" THEN bisect(a, functions, pivot, l, l + (r - l) \div 2)
             ELSE bisect(a, functions, pivot, l + (r - l) \div 2 + 1, r))

\* sorted(): binary insertion of a[start+1..] into the sorted a[1..start]
RECURSIVE binarysort(_, _, _)
binarysort(a, functions, start) ==
    IF start >= Len(a) THEN Return(a)
    ELSE With(bisect(a, functions, a[start + 1], 0, start), LAMBDA l :
             IF Raised(l) THEN l
             ELSE binarysort(SubSeq(a, 1, l.v) \o <<a[start + 1]>>
                             \o SubSeq(a, l.v + 1, start) \o SubSeq(a, start + 2, Len(a)),
                             functions, start + 1))

reversed(a) == [i \in 1..Len(a) |-> a[Len(a) + 1 - i]]

\* sorted(a) for a list short enough to be one run plus binary insertions:
\* Return(list) or Raise("TypeError")
sorted(a, functions) ==
    IF Len(a) < 2 THEN Return(a)
    ELSE With(lt(functions, a[2], a[1]), LAMBDA c :
             IF c = "E" THEN Raise("TypeError")
             ELSE With(count_run(a, functions, c = "T", 3), LAMBDA run :
                      IF Raised(run) THEN run
                      ELSE binarysort(
                               IF run.v.descending
                               THEN reversed(SubSeq(a, 1, run.v.n))
                                    \o SubSeq(a, run.v.n + 1, Len(a))
                               ELSE a,
                               functions, run.v.n)))

\* for item in items: output_string += f"\n{item}\n", the first failure raised
RECURSIVE items_str(_)
items_str(items) ==
    IF items = <<>> THEN Return(<<>>)
    ELSE With(item_str(Head(items)), LAMBDA h :
             IF Raised(h) THEN h
             ELSE With(items_str(Tail(items)), LAMBDA r :
                      IF Raised(r) THEN r
                      ELSE Return(<<"\n">> \o h.v \o <<"\n">> \o r.v)))

\* object_list of __str__: the nine collections one after the other
object_list(reader) == concat([i \in 1..Len(ElementLists) |-> reader[ElementLists[i]]])

\* DcmReader.__str__: Return(str) or Raise
DcmReader_str(reader) ==
    With(sorted(reader.functions_list, TRUE), LAMBDA functions :
    With(sorted(object_list(reader), FALSE), LAMBDA objects :
        IF Raised(objects) THEN objects
        ELSE With(items_str(objects.v), LAMBDA items :
                 IF Raised(items) THEN items
                 ELSE Return(
                     starred(reader.file_header)
                     \o <<"\n">> \o kw.KONSERVIERUNG_FORMAT \o <<" ", "2", ".", "0", "\n">>
                     \o <<"\n">> \o kw.FUNKTIONEN \o <<"\n">>
                     \o concat([i \in 1..Len(functions.v) |->
                                   <<" ", " ">> \o DcmFunction_str(functions.v[i])
                                   \o <<"\n">>])
                     \o kw.END \o <<"\n", "\n">>
                     \o items.v))))

-----------------------------------------------------------------------------
(* utils.py: _print_values.  A vector is [kind, items]: kind "U" for an array
   of str, "n" for an array of numbers *)

\* s.split(sep) for a separator of one character
RECURSIVE split_at(_, _)
split_at(s, sep) ==
    With(find(s, {sep}), LAMBDA i :
        IF i = 0 THEN <<s>>
        ELSE <<SubSeq(s, 1, i - 1)>> \o split_at(SubSeq(s, i + 1, Len(s)), sep))

\* _fmt_base(x): f"{x}"
fmt_base(kind, x) == IF kind = "U" THEN x ELSE num_str(x)

\* _to_str(val, fmt): " ".join(map(fmt, val_list))
to_str(kind, val) == join(<<" ">>, [i \in 1..Len(val) |-> fmt_base(kind, val[i])])

\* f"{key:<pad}": key, filled with spaces on the right up to pad characters
ljust(key, pad) == key \o [i \in 1..(IF pad > Len(key) THEN pad - Len(key) ELSE 0) |-> " "]

\* [value_list[i : i + n] for i in range(0, len(value_list), n)]
chunked(value_list, n) ==
    [c \in 1..((Len(value_list) + n - 1) \div n) |->
        SubSeq(value_list, (c - 1) * n + 1,
               IF c * n < Len(value_list) THEN c * n ELSE Len(value_list))]

\* _print_values without the split of the strings at their newlines
print_values_unsplit(key, value, n, pad) ==
    With(chunked(value.items, n), LAMBDA value_list_chunked :
        concat([c \in 1..Len(value_list_chunked) |->
                   <<" ", " ">> \o ljust(key, pad)
                   \o to_str(value.kind, value_list_chunked[c]) \o <<"\n">>]))

\* _print_values(key, value, fmt, n, pad) for a vector value
print_values(key, value, n, pad) ==
    With(IF value.kind = "U" THEN split_at(join(<<"\n">>, value.items), "\n")
         ELSE value.items, LAMBDA value_list :
    With(chunked(value_list, n), LAMBDA value_list_chunked :
        concat([c \in 1..Len(value_list_chunked) |->
                   <<" ", " ">> \o ljust(key, pad)
                   \o to_str(value.kind, value_list_chunked[c]) \o <<"\n">>])))

-----------------------------------------------------------------------------
(* The file and the reader's steps *)

\* what the iteration over the file yields next: a line already fixed, or one
\* of lines that the environment appends while the file has fewer than limit
\* lines; each element is the line with the file it is then part of
Reads(lines, limit) ==
    IF pos < Len(file)
    THEN {[line |-> file[pos + 1], file |-> file, open |-> open]}
    ELSE IF open /\ Len(file) < limit
    THEN {[line |-> l, file |-> Append(file, l), open |-> TRUE] : l \in lines}
    ELSE {}

\* what dcm_file.readline() returns next: a line as above, or "" when the file
\* has ended
Readline(lines, limit) ==
    Reads(lines, limit)
    \cup (IF pos >= Len(file) /\ pos < Len(file) + MaxEofReads
          THEN {[line |-> <<>>, file |-> file, open |-> FALSE]}
          ELSE {})

\* the variables of read() after a step that ends with frame f
Commit(f) ==
    /\ pc' = f.pc
    /\ err' = f.err
    /\ self' = f.self
    /\ dcm_format' = f.dcm_format
    /\ found' = f.found
    /\ stx' = f.stx
    /\ sty' = f.sty
    /\ parameters' = f.parameters
    /\ log' = f.log

\* the file after r has been taken from it
Consume(r) ==
    /\ file' = r.file
    /\ open' = r.open
    /\ pos' = pos + 1
    /\ UNCHANGED <<before, first, arg, ret, line_read, disk>>

\* for line in dcm_file: one iteration at top level
TopLine(r) ==
    /\ pc = "top"
    /\ LET f == top_line(Frame, r.line) IN Commit(f)
    /\ Consume(r)

\* for line in dcm_file: the file is exhausted and read() returns
EndOfFile ==
    /\ pc = "top"
    /\ pos = Len(file)
    /\ pc' = "returned"
    /\ open' = FALSE
    /\ UNCHANGED <<file, pos, err, self, dcm_format, found, stx, sty, parameters, log,
                   before, first, arg, ret, line_read, disk>>

\* line = dcm_file.readline() and what the FUNKTIONEN loop does with it
FunktionenLine(r) ==
    /\ pc = "FUNKTIONEN"
    /\ LET f == funktionen_line(Frame, r.line) IN Commit(f)
    /\ Consume(r)

\* line = dcm_file.readline().strip() and what the FESTWERT loop does with it
FestwertLine(r) ==
    /\ pc = "FESTWERT"
    /\ LET f == festwert_line(Frame, strip(r.line, Whitespace)) IN Commit(f)
    /\ Consume(r)

\* the same in a FESTWERTEBLOCK block
FestwerteblockLine(r) ==
    /\ pc = "FESTWERTEBLOCK"
    /\ LET f == festwerteblock_line(Frame, strip(r.line, Whitespace)) IN Commit(f)
    /\ Consume(r)

\* the same in a KENNLINIE, FESTKENNLINIE or GRUPPENKENNLINIE block
LineLine(block, list, r) ==
    /\ pc = block
    /\ LET f == characteristic_line_line(Frame, strip(r.line, Whitespace), list)
       IN  Commit(f)
    /\ Consume(r)

KennlinieLine(r) == LineLine("KENNLINIE", "characteristic_line_list", r)
FestkennlinieLine(r) == LineLine("FESTKENNLINIE", "fixed_characteristic_line_list", r)
GruppenkennlinieLine(r) ==
    LineLine("GRUPPENKENNLINIE", "group_characteristic_line_list", r)

\* the same in a KENNFELD, FESTKENNFELD or GRUPPENKENNFELD block
MapLine(block, list, r) ==
    /\ pc = block
    /\ LET f == characteristic_map_line(Frame, strip(r.line, Whitespace), list)
       IN  Commit(f)
    /\ Consume(r)

KennfeldLine(r) == MapLine("KENNFELD", "characteristic_map_list", r)
FestkennfeldLine(r) == MapLine("FESTKENNFELD", "fixed_characteristic_map_list", r)
GruppenkennfeldLine(r) == MapLine("GRUPPENKENNFELD", "group_characteristic_map_list", r)

\* the same in a STUETZSTELLENVERTEILUNG block
DistributionLine(r) ==
    /\ pc = "STUETZSTELLENVERTEILUNG"
    /\ LET f == distribution_line(Frame, strip(r.line, Whitespace)) IN Commit(f)
    /\ Consume(r)

\* the loops of read() that call dcm_file.readline()
Loops ==
    {"FUNKTIONEN", "FESTWERT", "FESTWERTEBLOCK", "KENNLINIE", "FESTKENNLINIE",
     "GRUPPENKENNLINIE", "KENNFELD", "FESTKENNFELD", "GRUPPENKENNFELD",
     "STUETZSTELLENVERTEILUNG"}

\* the body of the loop that read() is in, run on the line raw as readline()
\* returned it
loop_line(f, raw) ==
    With(strip(raw, Whitespace), LAMBDA line :
        CASE f.pc = "FUNKTIONEN" -> funktionen_line(f, raw)
          [] f.pc = "FESTWERT" -> festwert_line(f, line)
          [] f.pc = "FESTWERTEBLOCK" -> festwerteblock_line(f, line)
          [] f.pc = "KENNLINIE" -> characteristic_line_line(f, line, "characteristic_line_list")
          [] f.pc = "FESTKENNLINIE" ->
                 characteristic_line_line(f, line, "fixed_characteristic_line_list")
          [] f.pc = "GRUPPENKENNLINIE" ->
                 characteristic_line_line(f, line, "group_characteristic_line_list")
          [] f.pc = "KENNFELD" -> characteristic_map_line(f, line, "characteristic_map_list")
          [] f.pc = "FESTKENNFELD" ->
                 characteristic_map_line(f, line, "fixed_characteristic_map_list")
          [] f.pc = "GRUPPENKENNFELD" ->
                 characteristic_map_line(f, line, "group_characteristic_map_list")
          [] f.pc = "STUETZSTELLENVERTEILUNG" -> distribution_line(f, line))

\* the log with a record that repeats the one before it kept once: what a
\* loop that logs the same record over and over leaves of it
logged_once(f) ==
    IF Len(f.log) >= 2 /\ f.log[Len(f.log)] = f.log[Len(f.log) - 1]
    THEN [f EXCEPT !.log = SubSeq(@, 1, Len(@) - 1)]
    ELSE f

\* dcm_file.readline() in a loop of read() when no line is left: it returns ""
\* and the file stays at its end
ReadlineAtEnd ==
    /\ pc \in Loops
    /\ line_read = None
    /\ pos = Len(file)
    /\ line_read' = Some(<<>>)
    /\ open' = FALSE
    /\ UNCHANGED <<file, pos, pc, err, self, dcm_format, found, stx, sty, parameters,
                   log, before, first, arg, ret, disk>>

\* the body of the loop on the "" that readline() returned
BodyAtEnd ==
    /\ line_read # None
    /\ LET f == logged_once(loop_line(Frame, Val(line_read))) IN Commit(f)
    /\ line_read' = None
    /\ UNCHANGED <<file, open, pos, before, first, arg, ret, disk>>

\* _print_values(key, value) is called with the default n and pad
PrintValues ==
    /\ pc = "call"
    /\ ret' = Return(print_values(arg.key, arg.value, 6, 14))
    /\ pc' = "returned"
    /\ UNCHANGED <<file, open, pos, err, self, dcm_format, found, stx, sty, parameters,
                   log, before, first, arg, line_read, disk>>

\* parse_variant(arg) is called
ParseVariant ==
    /\ pc = "call"
    /\ ret' = parse_variant(arg)
    /\ pc' = "returned"
    /\ UNCHANGED <<file, open, pos, err, self, dcm_format, found, stx, sty, parameters,
                   log, before, first, arg, line_read, disk>>

\* convert_value(arg) is called
Convert ==
    /\ pc = "call"
    /\ ret' = convert_value(arg)
    /\ pc' = "returned"
    /\ UNCHANGED <<file, open, pos, err, self, dcm_format, found, stx, sty, parameters,
                   log, before, first, arg, line_read, disk>>

\* arg[1] < arg[2] is evaluated for two elements: __lt__ returns a bool or
\* raises TypeError
Less ==
    /\ pc = "compare"
    /\ ret' = With(element_lt(arg[1], arg[2]), LAMBDA r :
                  IF r = "E" THEN Raise("TypeError") ELSE Return(r = "T"))
    /\ pc' = "returned"
    /\ UNCHANGED <<file, open, pos, err, self, dcm_format, found, stx, sty, parameters,
                   log, before, first, arg, line_read, disk>>

\* the file that write(file) opens
write_file(path) ==
    IF endswith(path, <<".", "d", "c", "m">>) THEN path ELSE path \o <<".", "d", "c", "m">>

\* reader.write(path) after read() has returned: open(file, "w") creates the
\* file or empties it, then str(self) is written to it, or its exception
\* leaves write()
WriteTo(path) ==
    /\ pc = "returned"
    /\ first = None
    /\ LET text == DcmReader_str(self)
       IN  IF Raised(text)
           THEN /\ pc' = "raised" /\ err' = text.exc /\ file' = <<>> /\ first' = first
                /\ disk' = Some([name |-> write_file(path), text |-> <<>>])
           ELSE /\ pc' = "written" /\ err' = err /\ file' = file_lines(text.v)
                /\ first' = Some(self)
                /\ disk' = Some([name |-> write_file(path), text |-> text.v])
    /\ open' = FALSE
    /\ UNCHANGED <<pos, self, dcm_format, found, stx, sty, parameters, log, before,
                   arg, ret, line_read>>

\* reader.write("X")
Write == WriteTo(<<"X">>)

\* DcmReader().read(name) once write() has returned: open(name, "r") finds the
\* file that write() created, or raises; a fresh reader and fresh locals
ReadFrom(name) ==
    /\ pc = "written"
    /\ IF disk # None /\ Val(disk).name = name
       THEN pc' = "top" /\ err' = err /\ file' = file_lines(Val(disk).text)
       ELSE pc' = "raised" /\ err' = "FileNotFoundError" /\ file' = file
    /\ pos' = 0
    /\ self' = DcmReader
    /\ dcm_format' = None
    /\ found' = None
    /\ stx' = None
    /\ sty' = None
    /\ parameters' = None
    /\ UNCHANGED <<open, log, before, first, arg, ret, line_read, disk>>

\* read(file) called once more on the reader whose read() has returned, for a
\* file of the same lines: the locals are fresh, the reader is the same object;
\* first keeps the reader's fields as the first read() left them
ReadNext ==
    /\ pc = "returned"
    /\ first = None
    /\ first' = Some(self)
    /\ before' = self
    /\ pc' = "top"
    /\ pos' = 0
    /\ dcm_format' = None
    /\ found' = None
    /\ stx' = None
    /\ sty' = None
    /\ parameters' = None
    /\ UNCHANGED <<file, open, err, self, log, arg, ret, line_read, disk>>

\* DcmReader().read(file) on the file just written: a fresh reader and fresh
\* locals at the first line; first keeps the reader that wrote the file
ReadAgain ==
    /\ pc = "written"
    /\ pc' = "top"
    /\ pos' = 0
    /\ self' = DcmReader
    /\ dcm_format' = None
    /\ found' = None
    /\ stx' = None
    /\ sty' = None
    /\ parameters' = None
    /\ UNCHANGED <<file, open, err, log, before, first, arg, ret, line_read, disk>>

-----------------------------------------------------------------------------
(* Initial states and inputs *)

\* the reader right after DcmReader(), nothing read yet, with the file given
Fresh(lines) ==
    /\ file = lines
    /\ open = TRUE
    /\ pos = 0
    /\ pc = "top"
    /\ err = ""
    /\ self = DcmReader
    /\ dcm_format = None
    /\ found = None
    /\ stx = None
    /\ sty = None
    /\ parameters = None
    /\ log = <<>>
    /\ before = DcmReader
    /\ first = None
    /\ arg = <<>>
    /\ ret = None
    /\ line_read = None
    /\ disk = None

\* all strings over chars of length 1..n
RECURSIVE Strings(_, _)
Strings(chars, n) ==
    IF n = 0 THEN {}
    ELSE LET shorter == Strings(chars, n - 1)
         IN  {<<c>> : c \in chars} \cup shorter
             \cup {Append(w, c) : w \in shorter, c \in chars}

\* tokens handed to convert_value
Tokens ==
    Strings({"3", "0", ".", "-", "e", "x"}, MaxTokLen)
    \cup {<<"-", "0", ".", "2", "5">>, <<"i", "n", "f">>, <<"n", "a", "n">>,
          <<"1", "_", "0">>, <<"+", "3">>, <<"3", "E", "+", "0">>,
          <<"3", ".", "e", "1", "6">>, <<"3", ".", "e", "-", "5">>}

L_format == kw.KONSERVIERUNG_FORMAT \o <<" ", "2", ".", "0">>
L_end == kw.END
L_blank == <<>>
L_comment_a == <<"*", " ", "a">>
L_comment_b == <<"!", "b">>
L_junk == <<"x">>
L_festwert_p == kw.FESTWERT \o <<" ", "p">>

\* the lines of the files whose header is examined
HeaderLines ==
    {L_comment_a, L_comment_b, L_blank, L_format, L_festwert_p, L_end, L_junk}

-----------------------------------------------------------------------------
(* convert_value on its own *)

InitConvert ==
    /\ arg \in Tokens
    /\ pc = "call"
    /\ file = <<>> /\ open = FALSE /\ pos = 0 /\ err = "" /\ self = DcmReader
    /\ dcm_format = None /\ found = None /\ stx = None /\ sty = None
    /\ parameters = None /\ log = <<>> /\ before = DcmReader /\ first = None
    /\ ret = None /\ line_read = None /\ disk = None

NextConvert == Convert

SpecConvert == InitConvert /\ [][NextConvert]_vars

-----------------------------------------------------------------------------
(* read() on files made of comments, blank lines, the format line and a
   FESTWERT block *)

InitHeader == Fresh(<<>>)

NextHeader ==
    \/ \E r \in Reads(HeaderLines, MaxLines) : TopLine(r)
    \/ \E r \in Readline(HeaderLines, MaxLines) : FestwertLine(r)
    \/ EndOfFile

SpecHeader == InitHeader /\ [][NextHeader]_vars

-----------------------------------------------------------------------------
(* read() on files of FESTWERT and FESTWERTEBLOCK blocks named p *)

L_festwerteblock_p == kw.FESTWERTEBLOCK \o <<" ", "p", " ", "1">>
L_wert_5 == kw.WERT \o <<" ", "5">>
L_wert_x == kw.WERT \o <<" ", "x">>
L_text_a == kw.TEXT \o <<" ", "\"", "a", "\"">>

ParamLines == {L_festwert_p, L_festwerteblock_p, L_wert_5, L_wert_x, L_text_a, L_end}

InitParam == Fresh(<<L_format>>)

NextParam ==
    \/ \E r \in Reads(ParamLines, 1 + MaxLines) : TopLine(r)
    \/ \E r \in Readline(ParamLines, 1 + MaxLines) : FestwertLine(r)
    \/ \E r \in Readline(ParamLines, 1 + MaxLines) : FestwerteblockLine(r)
    \/ EndOfFile

SpecParam == InitParam /\ [][NextParam]_vars

-----------------------------------------------------------------------------
(* read() on files that end with or within their one KENNFELD, FESTKENNFELD
   or GRUPPENKENNFELD block *)

L_dims_2_2 == <<" ", "m", " ", "2", " ", "2">>
L_stx_1_2 == kw.STX \o <<" ", "1", " ", "2">>
L_stx_1_1 == kw.STX \o <<" ", "1", " ", "1">>
L_sty_1 == kw.STY \o <<" ", "1">>
L_sty_2 == kw.STY \o <<" ", "2">>
L_wert_5_6 == kw.WERT \o <<" ", "5", " ", "6">>
L_wert_7 == kw.WERT \o <<" ", "7">>
L_text_bare == kw.TEXT \o <<" ", "a">>

MapOpeners ==
    {kw.KENNFELD \o L_dims_2_2, kw.FESTKENNFELD \o L_dims_2_2,
     kw.GRUPPENKENNFELD \o L_dims_2_2}

MapLines ==
    {L_stx_1_2, L_stx_1_1, L_sty_1, L_sty_2, L_wert_5_6, L_wert_7, L_text_bare, L_end}

InitMap == \E opener \in MapOpeners : Fresh(<<L_format, opener>>)

NextMap ==
    \/ \E r \in Reads({}, 2 + MaxLines) : TopLine(r)
    \/ \E r \in Readline(MapLines, 2 + MaxLines) : KennfeldLine(r)
    \/ \E r \in Readline(MapLines, 2 + MaxLines) : FestkennfeldLine(r)
    \/ \E r \in Readline(MapLines, 2 + MaxLines) : GruppenkennfeldLine(r)
    \/ EndOfFile

SpecMap == InitMap /\ [][NextMap]_vars

-----------------------------------------------------------------------------
(* read() on files of one block whose lines may disagree with its declared
   dimensions *)

L_dims_3 == <<" ", "k", " ", "3">>

DimOpeners ==
    MapOpeners
    \cup {kw.FESTWERTEBLOCK \o L_dims_3, kw.KENNLINIE \o L_dims_3,
          kw.FESTKENNLINIE \o L_dims_3, kw.GRUPPENKENNLINIE \o L_dims_3,
          kw.STUETZSTELLENVERTEILUNG \o L_dims_3}

DimLines == {L_stx_1_2, L_stx_1_1, L_wert_5_6, L_wert_7, L_sty_1, L_end}

InitDims == \E opener \in DimOpeners : Fresh(<<L_format, opener>>)

NextDims ==
    \/ \E r \in Reads(DimLines, 2 + MaxLines) : TopLine(r)
    \/ \E r \in Readline(DimLines, 2 + MaxLines) : FestwerteblockLine(r)
    \/ \E r \in Readline(DimLines, 2 + MaxLines) : KennlinieLine(r)
    \/ \E r \in Readline(DimLines, 2 + MaxLines) : FestkennlinieLine(r)
    \/ \E r \in Readline(DimLines, 2 + MaxLines) : GruppenkennlinieLine(r)
    \/ \E r \in Readline(DimLines, 2 + MaxLines) : KennfeldLine(r)
    \/ \E r \in Readline(DimLines, 2 + MaxLines) : FestkennfeldLine(r)
    \/ \E r \in Readline(DimLines, 2 + MaxLines) : GruppenkennfeldLine(r)
    \/ \E r \in Readline(DimLines, 2 + MaxLines) : DistributionLine(r)
    \/ EndOfFile

SpecDims == InitDims /\ [][NextDims]_vars

-----------------------------------------------------------------------------
(* read(), write() and read() again on files of a FUNKTIONEN list and
   FESTWERT blocks *)

L_funktionen == kw.FUNKTIONEN
L_fkt == kw.FKT \o <<" ", "f", " ", "\"", "1", "\"", " ", "\"", "d", "\"">>
L_var_a_5 == kw.VAR \o <<" ", "a", "=", "5">>

RoundLines == {L_funktionen, L_fkt, L_end, L_festwert_p, L_wert_5, L_var_a_5}

InitRound == Fresh(<<L_format>>)

NextRound ==
    \/ \E r \in Reads(RoundLines, 1 + MaxLines) : TopLine(r)
    \/ \E r \in Readline(RoundLines, 1 + MaxLines) : FunktionenLine(r)
    \/ \E r \in Readline(RoundLines, 1 + MaxLines) : FestwertLine(r)
    \/ EndOfFile
    \/ Write
    \/ ReadAgain

SpecRound == InitRound /\ [][NextRound]_vars

-----------------------------------------------------------------------------
(* read() on files of one block of any kind whose lines carry numbers, tokens
   that are no numbers, and words that the block does not know *)

L_stx_1_x == kw.STX \o <<" ", "1", " ", "x">>
L_sty_x == kw.STY \o <<" ", "x">>

FieldOpeners == DimOpeners \cup {L_festwert_p}

FieldLines == {L_wert_5, L_wert_x, L_stx_1_x, L_sty_1, L_sty_x, L_junk, L_end}

InitFields == \E opener \in FieldOpeners : Fresh(<<L_format, opener>>)

NextFields ==
    \/ \E r \in Reads(FieldLines, 2 + MaxLines) : TopLine(r)
    \/ \E r \in Readline(FieldLines, 2 + MaxLines) : FestwertLine(r)
    \/ \E r \in Readline(FieldLines, 2 + MaxLines) : FestwerteblockLine(r)
    \/ \E r \in Readline(FieldLines, 2 + MaxLines) : KennlinieLine(r)
    \/ \E r \in Readline(FieldLines, 2 + MaxLines) : FestkennlinieLine(r)
    \/ \E r \in Readline(FieldLines, 2 + MaxLines) : GruppenkennlinieLine(r)
    \/ \E r \in Readline(FieldLines, 2 + MaxLines) : KennfeldLine(r)
    \/ \E r \in Readline(FieldLines, 2 + MaxLines) : FestkennfeldLine(r)
    \/ \E r \in Readline(FieldLines, 2 + MaxLines) : GruppenkennfeldLine(r)
    \/ \E r \in Readline(FieldLines, 2 + MaxLines) : DistributionLine(r)
    \/ EndOfFile

SpecFields == InitFields /\ [][NextFields]_vars

-----------------------------------------------------------------------------
(* read() on files that end after, or within, their one FUNKTIONEN list or
   element block, run to its end: read() is sequential code that keeps
   running, so a step that is possible is taken *)

EndOpeners == FieldOpeners \cup {L_funktionen}

EndLines == {L_fkt, L_wert_5, L_end}

InitEnd == \E opener \in EndOpeners : Fresh(<<L_format, opener>>)

NextEnd ==
    \/ \E r \in Reads(EndLines, 2 + MaxLines) : TopLine(r)
    \/ \E r \in Reads(EndLines, 2 + MaxLines) : FunktionenLine(r)
    \/ \E r \in Reads(EndLines, 2 + MaxLines) : FestwertLine(r)
    \/ \E r \in Reads(EndLines, 2 + MaxLines) : FestwerteblockLine(r)
    \/ \E r \in Reads(EndLines, 2 + MaxLines) : KennlinieLine(r)
    \/ \E r \in Reads(EndLines, 2 + MaxLines) : FestkennlinieLine(r)
    \/ \E r \in Reads(EndLines, 2 + MaxLines) : GruppenkennlinieLine(r)
    \/ \E r \in Reads(EndLines, 2 + MaxLines) : KennfeldLine(r)
    \/ \E r \in Reads(EndLines, 2 + MaxLines) : FestkennfeldLine(r)
    \/ \E r \in Reads(EndLines, 2 + MaxLines) : GruppenkennfeldLine(r)
    \/ \E r \in Reads(EndLines, 2 + MaxLines) : DistributionLine(r)
    \/ ReadlineAtEnd
    \/ BodyAtEnd
    \/ EndOfFile

SpecEnd == InitEnd /\ [][NextEnd]_vars /\ WF_vars(NextEnd)

-----------------------------------------------------------------------------
(* read(), write() and read() again on files of one FUNKTIONEN list or one
   element block of any kind with comments and axis mappings *)

L_sstx_m == <<"*">> \o kw.SSTX \o <<" ", "m">>
L_ssty_n == <<"*">> \o kw.SSTY \o <<" ", "n">>

KindLines == {L_fkt, L_comment_a, L_sstx_m, L_ssty_n, L_end}

InitKinds == \E opener \in EndOpeners : Fresh(<<L_format, opener>>)

NextKinds ==
    \/ \E r \in Reads({}, 2 + MaxLines) : TopLine(r)
    \/ \E r \in Reads(KindLines, 2 + MaxLines) : FunktionenLine(r)
    \/ \E r \in Reads(KindLines, 2 + MaxLines) : FestwertLine(r)
    \/ \E r \in Reads(KindLines, 2 + MaxLines) : FestwerteblockLine(r)
    \/ \E r \in Reads(KindLines, 2 + MaxLines) : KennlinieLine(r)
    \/ \E r \in Reads(KindLines, 2 + MaxLines) : FestkennlinieLine(r)
    \/ \E r \in Reads(KindLines, 2 + MaxLines) : GruppenkennlinieLine(r)
    \/ \E r \in Reads(KindLines, 2 + MaxLines) : KennfeldLine(r)
    \/ \E r \in Reads(KindLines, 2 + MaxLines) : FestkennfeldLine(r)
    \/ \E r \in Reads(KindLines, 2 + MaxLines) : GruppenkennfeldLine(r)
    \/ \E r \in Reads(KindLines, 2 + MaxLines) : DistributionLine(r)
    \/ EndOfFile
    \/ Write
    \/ ReadAgain

SpecKinds == InitKinds /\ [][NextKinds]_vars

-----------------------------------------------------------------------------
(* a < b for two elements of one class, as created or with a function and a
   description set *)

Names == Strings({"a", "b"}, MaxNameLen)

\* the elements of the classes whose constructor takes a name
Created(name) ==
    {DcmParameter(name), DcmParameterBlock(name),
     DcmCharacteristicLine("DcmCharacteristicLine", name),
     DcmCharacteristicMap("DcmCharacteristicMap", name)}

\* e as created, or with function and description assigned
Described(e) ==
    {e} \cup {[e EXCEPT !.function = Some(f), !.description = Some(d)] :
                 f \in {<<"f">>, <<"g">>}, d \in {<<"c">>, <<"d">>}}

InitLess ==
    /\ \E n1 \in Names, n2 \in Names :
           \E a \in Created(n1), b \in Created(n2) :
               /\ a.cls = b.cls
               /\ arg \in {<<x, y>> : x \in Described(a), y \in Described(b)}
    /\ pc = "compare"
    /\ file = <<>> /\ open = FALSE /\ pos = 0 /\ err = "" /\ self = DcmReader
    /\ dcm_format = None /\ found = None /\ stx = None /\ sty = None
    /\ parameters = None /\ log = <<>> /\ before = DcmReader /\ first = None
    /\ ret = None /\ line_read = None /\ disk = None

SpecLess == InitLess /\ [][Less]_vars

-----------------------------------------------------------------------------
(* read() and write() on files of two FESTWERT blocks, each with a function
   and a description *)

\* the lines of a FESTWERT block with a name, a function and a description
Block(name, function, description) ==
    <<kw.FESTWERT \o <<" ">> \o name,
      kw.FUNKTION \o <<" ", "\"">> \o function \o <<"\"">>,
      kw.LANGNAME \o <<" ", "\"">> \o description \o <<"\"">>,
      L_end>>

OrderFiles ==
    {<<L_format>> \o Block(n1, f1, d1) \o Block(n2, f2, d2) :
        n1 \in {<<"p">>, <<"q">>}, n2 \in {<<"p">>, <<"q">>},
        f1 \in {<<"f">>, <<"g">>}, f2 \in {<<"f">>, <<"g">>},
        d1 \in {<<"c">>, <<"d">>}, d2 \in {<<"c">>, <<"d">>}}

InitOrder == \E lines \in OrderFiles : Fresh(lines)

NextOrder ==
    \/ \E r \in Reads({}, 0) : TopLine(r)
    \/ \E r \in Reads({}, 0) : FestwertLine(r)
    \/ EndOfFile
    \/ Write

SpecOrder == InitOrder /\ [][NextOrder]_vars

-----------------------------------------------------------------------------
(* read() called twice on one reader, for files of comments and FESTWERT
   blocks *)

TwiceLines == {L_comment_a, L_format, L_festwert_p, L_end}

NextTwice ==
    \/ \E r \in Reads(TwiceLines, MaxLines) : TopLine(r)
    \/ \E r \in Reads(TwiceLines, MaxLines) : FestwertLine(r)
    \/ EndOfFile
    \/ ReadNext

SpecTwice == InitHeader /\ [][NextTwice]_vars

-----------------------------------------------------------------------------
(* read(), write(path) and read(name) for files of two FESTWERT blocks *)

Dcm == <<".", "d", "c", "m">>

\* the names that write() is called with
Paths ==
    {<<"X">>, <<"X">> \o Dcm, Dcm, <<"d", "c", "m">>, <<"X", ".", "d", "c">>,
     <<"X">> \o Dcm \o <<"X">>, <<"X", ".", "D", "C", "M">>}

InitWrite ==
    /\ file \in OrderFiles
    /\ arg \in Paths
    /\ open = TRUE /\ pos = 0 /\ pc = "top" /\ err = "" /\ self = DcmReader
    /\ dcm_format = None /\ found = None /\ stx = None /\ sty = None
    /\ parameters = None /\ log = <<>> /\ before = DcmReader /\ first = None
    /\ ret = None /\ line_read = None /\ disk = None

NextWrite ==
    \/ \E r \in Reads({}, 0) : TopLine(r)
    \/ \E r \in Reads({}, 0) : FestwertLine(r)
    \/ EndOfFile
    \/ WriteTo(arg)
    \/ ReadFrom(arg)
    \/ ReadFrom(arg \o Dcm)

SpecWrite == InitWrite /\ [][NextWrite]_vars

-----------------------------------------------------------------------------
(* read() on files of one characteristic line whose ST/X and WERT vectors are
   wrapped over several lines *)

L_stx_3 == kw.STX \o <<" ", "3">>

WrapOpeners ==
    {kw.KENNLINIE \o L_dims_3, kw.FESTKENNLINIE \o L_dims_3, kw.GRUPPENKENNLINIE \o L_dims_3}

WrapLines == {L_stx_1_2, L_stx_1_1, L_stx_3, L_wert_5_6, L_wert_7, L_end}

InitWrap == \E opener \in WrapOpeners : Fresh(<<L_format, opener>>)

NextWrap ==
    \/ \E r \in Reads({}, 2 + MaxLines) : TopLine(r)
    \/ \E r \in Readline(WrapLines, 2 + MaxLines) : KennlinieLine(r)
    \/ \E r \in Readline(WrapLines, 2 + MaxLines) : FestkennlinieLine(r)
    \/ \E r \in Readline(WrapLines, 2 + MaxLines) : GruppenkennlinieLine(r)
    \/ EndOfFile

SpecWrap == InitWrap /\ [][NextWrap]_vars

-----------------------------------------------------------------------------
(* parse_variant on its own *)

\* the names and the right-hand sides of the VAR lines
VariantNames == {<<"a">>, <<"a", " ">>, <<"a", "b">>, <<>>}

VariantValues ==
    {<<"3">>, <<"3", ".", "0">>, <<"-", "3">>, <<" ", "3">>, <<"3", " ">>, <<"3", "e", "3">>,
     <<".", "3">>, <<"i", "n", "f">>, <<"n", "a", "n">>, <<>>, <<"b">>, <<"\"", "b", "\"">>,
     <<" ", "\"", "b", "\"", " ">>, <<"\"", "3", "\"">>, <<"b", " ", "c">>,
     <<"\"", " ", "b", "\"", "\"">>, <<"b", "\"", "c">>, <<"3", "x">>, <<"3", " ", "3">>,
     <<"b", "=", "c">>, <<"\"", "\"">>, <<"-">>, <<"3", ",", "0">>, <<"\t", "b">>,
     <<"\t", "3">>}

\* the line VAR <name>=<rhs>
VariantLine(name, rhs) == kw.VAR \o <<" ">> \o name \o <<"=">> \o rhs

InitVariant ==
    /\ arg \in {VariantLine(name, rhs) : name \in VariantNames, rhs \in VariantValues}
    /\ pc = "call"
    /\ file = <<>> /\ open = FALSE /\ pos = 0 /\ err = "" /\ self = DcmReader
    /\ dcm_format = None /\ found = None /\ stx = None /\ sty = None
    /\ parameters = None /\ log = <<>> /\ before = DcmReader /\ first = None
    /\ ret = None /\ line_read = None /\ disk = None

NextVariant == ParseVariant

SpecVariant == InitVariant /\ [][NextVariant]_vars

-----------------------------------------------------------------------------
(* _print_values on its own *)

\* the vectors of the numbers from + 1, from + 2, ...
NumberVectors ==
    {[kind |-> "n", items |-> [i \in 1..n |-> IntNum(from + i)]] :
        n \in 0..MaxValues, from \in {0, 20}}

\* the vectors of strings, with and without a newline in a string
TextVectors ==
    {[kind |-> "U", items |-> w] : w \in Strings({<<"a">>, <<"b", "c">>, <<"a", "\n", "b">>}, MaxTexts)}
    \cup {[kind |-> "U", items |-> [i \in 1..7 |-> <<"a">>]]}

InitPrint ==
    /\ arg \in [key : {kw.WERT, kw.STX}, value : NumberVectors \cup TextVectors]
    /\ pc = "call"
    /\ file = <<>> /\ open = FALSE /\ pos = 0 /\ err = "" /\ self = DcmReader
    /\ dcm_format = None /\ found = None /\ stx = None /\ sty = None
    /\ parameters = None /\ log = <<>> /\ before = DcmReader /\ first = None
    /\ ret = None /\ line_read = None /\ disk = None

NextPrint == PrintValues

SpecPrint == InitPrint /\ [][NextPrint]_vars

-----------------------------------------------------------------------------
(* read() on files of one characteristic line or map with comment lines *)

L_see_sstx == <<"*", " ", "a", " ">> \o kw.SSTX \o <<" ", "m">>
L_sstx_bare == <<"*">> \o kw.SSTX

CommentOpeners == WrapOpeners \cup MapOpeners

CommentLines == {L_comment_a, L_sstx_m, L_ssty_n, L_see_sstx, L_sstx_bare, L_end}

InitComment == \E opener \in CommentOpeners : Fresh(<<L_format, opener>>)

NextComment ==
    \/ \E r \in Reads({}, 2 + MaxLines) : TopLine(r)
    \/ \E r \in Reads(CommentLines, 2 + MaxLines) : KennlinieLine(r)
    \/ \E r \in Reads(CommentLines, 2 + MaxLines) : FestkennlinieLine(r)
    \/ \E r \in Reads(CommentLines, 2 + MaxLines) : GruppenkennlinieLine(r)
    \/ \E r \in Reads(CommentLines, 2 + MaxLines) : KennfeldLine(r)
    \/ \E r \in Reads(CommentLines, 2 + MaxLines) : FestkennfeldLine(r)
    \/ \E r \in Reads(CommentLines, 2 + MaxLines) : GruppenkennfeldLine(r)
    \/ EndOfFile

SpecComment == InitComment /\ [][NextComment]_vars

-----------------------------------------------------------------------------
(* read() on files of several blocks of all kinds, each closed at once; the
   name follows the keyword after a space or after a tab *)

L_festwert_q == kw.FESTWERT \o <<" ", "q">>
L_festwert_tab == kw.FESTWERT \o <<"\t", "t">>
L_kennlinie_q == kw.KENNLINIE \o <<" ", "q", " ", "3">>
L_kennfeld_tab == kw.KENNFELD \o <<"\t", "t", " ", "2", " ", "2">>

DispatchLines ==
    DimOpeners \cup {L_festwert_p, L_festwert_q, L_kennlinie_q, L_festwert_tab,
                     L_kennfeld_tab, L_end}

InitDispatch == Fresh(<<L_format>>)

NextDispatch ==
    \/ \E r \in Reads(DispatchLines, 1 + MaxLines) : TopLine(r)
    \/ \E r \in Reads({L_end}, 1 + MaxLines) : FestwertLine(r)
    \/ \E r \in Reads({L_end}, 1 + MaxLines) : FestwerteblockLine(r)
    \/ \E r \in Reads({L_end}, 1 + MaxLines) : KennlinieLine(r)
    \/ \E r \in Reads({L_end}, 1 + MaxLines) : FestkennlinieLine(r)
    \/ \E r \in Reads({L_end}, 1 + MaxLines) : GruppenkennlinieLine(r)
    \/ \E r \in Reads({L_end}, 1 + MaxLines) : KennfeldLine(r)
    \/ \E r \in Reads({L_end}, 1 + MaxLines) : FestkennfeldLine(r)
    \/ \E r \in Reads({L_end}, 1 + MaxLines) : GruppenkennfeldLine(r)
    \/ \E r \in Reads({L_end}, 1 + MaxLines) : DistributionLine(r)
    \/ EndOfFile

SpecDispatch == InitDispatch /\ [][NextDispatch]_vars

-----------------------------------------------------------------------------
(* read(), write() and read() of the written file, for files of FESTWERT
   blocks with the values 0 and 5 and a numeric variant *)

L_wert_0 == kw.WERT \o <<" ", "0">>

ZeroLines == {L_festwert_p, L_wert_0, L_wert_5, L_var_a_5, L_end}

InitZero == Fresh(<<L_format>>)

NextZero ==
    \/ \E r \in Reads(ZeroLines, 1 + MaxLines) : TopLine(r)
    \/ \E r \in Readline({}, 0) : FunktionenLine(r)
    \/ \E r \in Readline(ZeroLines, 1 + MaxLines) : FestwertLine(r)
    \/ EndOfFile
    \/ Write
    \/ ReadAgain

SpecZero == InitZero /\ [][NextZero]_vars

-----------------------------------------------------------------------------
(* What the properties below speak of *)

Range(seq) == {seq[i] : i \in 1..Len(seq)}

Min(a, b) == IF a < b THEN a ELSE b

\* the lines of the file that have been read, in file order
LinesRead == SubSeq(file, 1, Min(pos, Len(file)))

\* the line a step takes from the file, stripped; "" at the end of the file
Taken == IF pos < Len(file') THEN strip(file'[pos + 1], Whitespace) ELSE <<>>

\* a step that takes a line from the file
TakesLine == pos' = pos + 1

\* a line that is neither a comment nor blank
Significant(line) ==
    strip(line, Whitespace) # <<>> /\ ~is_comment(strip(line, Whitespace))

\* the index in lines of the first line for which P holds, 0 when there is none
FirstLine(lines, P(_)) ==
    IF \E i \in 1..Len(lines) : P(lines[i])
    THEN CHOOSE i \in 1..Len(lines) : P(lines[i]) /\ \A j \in 1..(i - 1) : ~P(lines[j])
    ELSE 0

\* all elements of a reader, kind after kind
AllElements(reader) == concat([i \in 1..Len(ElementLists) |-> reader[ElementLists[i]]])

\* the reader holds no function and no element
NothingAdded(reader) == reader.functions_list = <<>> /\ AllElements(reader) = <<>>

\* the text that the comment lines among lines contribute to a header
HeaderOf(lines) ==
    concat([i \in 1..Len(lines) |->
               IF is_comment(strip(lines[i], Whitespace))
               THEN strip(Tail(strip(lines[i], Whitespace)), Whitespace) \o <<"\n">>
               ELSE <<>>])

\* lines up to, not including, its first line for which P holds
Before(lines, P(_)) ==
    IF FirstLine(lines, P) = 0 THEN lines ELSE SubSeq(lines, 1, FirstLine(lines, P) - 1)

NotComment(line) == ~is_comment(strip(line, Whitespace))

-----------------------------------------------------------------------------
(* C1: the round trip *)

\* the fields of an element that the round trip is to preserve
Structure(e) ==
    [k \in DOMAIN e \ {"cls", "type_name", "comment", "x_mapping", "y_mapping"} |-> e[k]]

\* two lists hold the same items, each as often, in any order
SameItems(a, b) ==
    /\ Len(a) = Len(b)
    /\ \A x \in Range(a) \cup Range(b) :
           Cardinality({i \in 1..Len(a) : a[i] = x})
               = Cardinality({i \in 1..Len(b) : b[i] = x})

\* two readers hold structurally equal documents
StructurallyEqual(r1, r2) ==
    /\ SameItems(r1.functions_list, r2.functions_list)
    /\ \A i \in 1..Len(ElementLists) :
           SameItems([j \in 1..Len(r1[ElementLists[i]]) |-> Structure(r1[ElementLists[i]][j])],
                     [j \in 1..Len(r2[ElementLists[i]]) |-> Structure(r2[ElementLists[i]][j])])

\* C1: when the file that a reader wrote after an accepted read has been read
\* by a fresh reader, the two readers hold structurally equal documents: the
\* same functions and, per kind, elements equal in name, description,
\* function, display name, units, dimensions, values and variants.
C1_RoundTrip ==
    (pc = "returned" /\ first # None) => StructurallyEqual(Val(first), self)

-----------------------------------------------------------------------------
(* C2: convert_value *)

HasPoint(token) == \E i \in 1..Len(token) : token[i] = "."

\* C2: convert_value(token) fails with ValueError exactly when float(token)
\* fails; otherwise it returns the parsed value, as an int exactly when the
\* token has no '.' and the value is integral, else as a float; "3" gives
\* int 3, "3.0" float 3.0 and "-0.25" float -0.25.
C2_ConvertValue ==
    pc = "returned" =>
        /\ Raised(float(arg)) <=> Raised(ret)
        /\ Raised(ret) => ret.exc = "ValueError"
        /\ ~Raised(ret) =>
               /\ ret.v.t = "int" <=> (~HasPoint(arg) /\ float(arg).v.sp = "fin"
                                        /\ float(arg).v.e >= 0)
               /\ ret.v.t \in {"int", "float"}
               /\ ret.v.sp = float(arg).v.sp
               /\ ret.v.m = float(arg).v.m /\ ret.v.e = float(arg).v.e
               /\ ret.v.m # 0 => ret.v.neg = float(arg).v.neg
        /\ arg = <<"3">> =>
               ret = Return([t |-> "int", sp |-> "fin", neg |-> FALSE, m |-> 3, e |-> 0])
        /\ arg = <<"3", ".", "0">> =>
               ret = Return([t |-> "float", sp |-> "fin", neg |-> FALSE, m |-> 3, e |-> 0])
        /\ arg = <<"-", "0", ".", "2", "5">> =>
               ret = Return([t |-> "float", sp |-> "fin", neg |-> TRUE, m |-> 25, e |-> -2])

\* convert_value has returned a float for the integral "3.0"
C2_Witness ==
    /\ pc = "returned"
    /\ arg = <<"3", ".", "0">>
    /\ ~Raised(ret)
    /\ ret.v.t = "float"

-----------------------------------------------------------------------------
(* C3: the first significant line *)

\* C3: when the first line read that is neither a comment nor blank does not
\* start with KONSERVIERUNG_FORMAT, read has raised Exception at that line,
\* and the reader holds no function and no element.
C3_BadFirstLineRaises ==
    LET i == FirstLine(LinesRead, Significant)
    IN  (i # 0 /\ ~startswith(strip(LinesRead[i], Whitespace), kw.KONSERVIERUNG_FORMAT))
            => /\ pc = "raised"
               /\ err = "Exception"
               /\ pos = i
               /\ NothingAdded(self)

\* read has raised at a FESTWERT line that follows a comment and a blank line
C3_Witness ==
    /\ pc = "raised"
    /\ pos = 3
    /\ file = <<L_comment_a, L_blank, L_festwert_p>>
    /\ NothingAdded(self)

-----------------------------------------------------------------------------
(* C4: the file header *)

\* C4 as stated: the header is made of the comment lines read before the
\* first line that is neither a comment nor blank, blank lines between them
\* not ending the accumulation.
C4_HeaderSkipsBlankLines ==
    self.file_header = HeaderOf(Before(LinesRead, Significant))

\* C4: the header is made of the comment lines read before the first line
\* that is not a comment, a blank line included: each with its marker
\* stripped, trimmed, on a line of its own, in file order; no comment line
\* read after that line is added.
C4_HeaderEndsAtFirstNonComment ==
    self.file_header = HeaderOf(Before(LinesRead, NotComment))

\* a comment line after a blank line has been read and is not in the header
C4_Witness ==
    /\ pos >= 3
    /\ SubSeq(file, 1, 3) = <<L_comment_a, L_blank, L_comment_b>>
    /\ self.file_header = <<"a", "\n">>

-----------------------------------------------------------------------------
(* C5: the rows of a map *)

MapBlocks == {"KENNFELD", "FESTKENNFELD", "GRUPPENKENNFELD"}

MapLists ==
    {"characteristic_map_list", "fixed_characteristic_map_list",
     "group_characteristic_map_list"}

\* the lines of the block that file[2] opens, END not included, once END has
\* been read
BlockLines ==
    LET rest == SubSeq(LinesRead, 3, Len(LinesRead))
        IsEnd(line) == startswith(strip(line, Whitespace), kw.END)
    IN  Before(rest, IsEnd)

\* the numbers on the lines of lines that start with word, in file order
NumbersOf(lines, word) ==
    concat([i \in 1..Len(lines) |->
               IF startswith(lines[i], word) THEN parse_block_parameters(lines[i]).v
               ELSE <<>>])

\* the indexes of the ST/Y lines of lines that a WERT line follows before the
\* next ST/Y line
RowStarts(lines) ==
    {i \in 1..Len(lines) :
        /\ startswith(lines[i], kw.STY)
        /\ \E j \in (i + 1)..Len(lines) :
               /\ startswith(lines[j], kw.WERT)
               /\ \A h \in (i + 1)..(j - 1) : ~startswith(lines[h], kw.STY)}

\* the y coordinate on the ST/Y line i
RowKey(lines, i) == convert_value(strip(split1(lines[i])[2], Whitespace)).v

\* the numbers of the WERT lines between the ST/Y line i and the next one
RowNumbers(lines, i) ==
    LET after == SubSeq(lines, i + 1, Len(lines))
        IsSty(line) == startswith(line, kw.STY)
    IN  NumbersOf(Before(after, IsSty), kw.WERT)

\* values[y][x] = v in the values of a map
Holds(values, y, x, v) ==
    \E i \in 1..Len(values) :
        /\ num_eq(values[i].k, y)
        /\ values[i].v.isdict
        /\ \E j \in 1..Len(values[i].v.items) :
               /\ num_eq(Val(values[i].v.items[j].k), x)
               /\ values[i].v.items[j].v = v

\* every row of the block is keyed by its ST/Y value and the ST/X vector
RowsKeyed(e, lines) ==
    LET xs == NumbersOf(lines, kw.STX)
    IN  \A i \in RowStarts(lines) :
            LET y   == RowKey(lines, i)
                row == RowNumbers(lines, i)
            IN  \A k \in 1..Min(Len(xs), Len(row)) : Holds(e.values, y, xs[k], row[k])

\* every row of the block has the declared length
RowsDeclared(e, lines) ==
    \A i \in RowStarts(lines) : Len(RowNumbers(lines, i)) = to_int(e.x_dimension)

\* no two rows of the block have the same ST/Y value, and no two of the ST/X
\* coordinates that a row pairs with its numbers are the same
CoordinatesDistinct(e, lines) ==
    LET xs == NumbersOf(lines, kw.STX)
    IN  /\ \A i, j \in RowStarts(lines) :
               i # j => ~num_eq(RowKey(lines, i), RowKey(lines, j))
        /\ \A h, k \in 1..Min(Len(xs), to_int(e.x_dimension)) :
               h # k => ~num_eq(xs[h], xs[k])

-----------------------------------------------------------------------------
(* C6: value and text of a parameter *)

\* C6: after read, no DcmParameter has both a value and a text.
C6_ValueOrText ==
    pc = "returned" =>
        \A i \in 1..Len(self.parameter_list) :
            self.parameter_list[i].value = None \/ self.parameter_list[i].text = None

-----------------------------------------------------------------------------
(* C7: declared and actual dimensions *)

LineBlocks == {"KENNLINIE", "FESTKENNLINIE", "GRUPPENKENNLINIE"}

DimBlocks == LineBlocks \cup MapBlocks \cup {"FESTWERTEBLOCK", "STUETZSTELLENVERTEILUNG"}

\* the collection of the elements of a block
CollectionOf(block) ==
    CASE block = "FESTWERTEBLOCK" -> "block_parameter_list"
      [] block = "KENNLINIE" -> "characteristic_line_list"
      [] block = "FESTKENNLINIE" -> "fixed_characteristic_line_list"
      [] block = "GRUPPENKENNLINIE" -> "group_characteristic_line_list"
      [] block = "KENNFELD" -> "characteristic_map_list"
      [] block = "FESTKENNFELD" -> "fixed_characteristic_map_list"
      [] block = "GRUPPENKENNFELD" -> "group_characteristic_map_list"
      [] block = "STUETZSTELLENVERTEILUNG" -> "distribution_list"

\* a step that reads the END line of a block with dimensions
ReadsEnd == pc \in DimBlocks /\ TakesLine /\ startswith(Taken, kw.END)

\* the element that a step adds to the collection of the block it closes
Added == self'[CollectionOf(pc)][Len(self'[CollectionOf(pc)])]

PairwiseDistinct(numbers) ==
    \A h, k \in 1..Len(numbers) : h # k => ~num_eq(numbers[h], numbers[k])

\* a step that closes a KENNLINIE block declared with 3 points in which 2
\* ST/X values were read
ClosesShortLine ==
    /\ pc = "KENNLINIE"
    /\ ReadsEnd
    /\ to_int(Val(found).x_dimension) = 3
    /\ Len(Val(stx)) = 2

-----------------------------------------------------------------------------
(* C8: a value before the y coordinate *)

\* C8: in a map block, a WERT or TEXT line read before any ST/Y line of that
\* block makes read raise.
C8_ValueBeforeCoordinateRaises ==
    [][(/\ pc \in MapBlocks
        /\ sty = None
        /\ TakesLine
        /\ startswith(Taken, kw.WERT) \/ startswith(Taken, kw.TEXT))
           => pc' = "raised"]_vars

-----------------------------------------------------------------------------
(* C9: the names of the elements *)

\* C9: read does not return a document in which two elements have the same
\* name.
C9_NamesUnique ==
    pc = "returned" =>
        \A i, j \in 1..Len(AllElements(self)) :
            i # j => AllElements(self)[i].name # AllElements(self)[j].name

-----------------------------------------------------------------------------
(* C10: the reader after a fatal error *)

\* C10: when read has raised, the header and every collection of the reader
\* are as they were before the call.
C10_NoPartialDocument ==
    pc = "raised" =>
        /\ self.file_header = before.file_header
        /\ self.functions_list = before.functions_list
        /\ \A l \in Range(ElementLists) : self[l] = before[l]

-----------------------------------------------------------------------------
(* C11: tokens that are no numbers *)

\* the words a block's loop dispatches on, besides the comment markers
FieldWords(block) ==
    {kw.END, kw.LANGNAME, kw.DISPLAYNAME, kw.FUNKTION, kw.VAR}
    \cup (CASE block = "FESTWERT" -> {kw.WERT, kw.EINHEIT_W, kw.TEXT}
            [] block = "FESTWERTEBLOCK" -> {kw.WERT, kw.EINHEIT_W}
            [] block \in LineBlocks -> {kw.WERT, kw.STX, kw.EINHEIT_W, kw.EINHEIT_X}
            [] block \in MapBlocks ->
                   {kw.WERT, kw.STX, kw.STY, kw.EINHEIT_W, kw.EINHEIT_X, kw.EINHEIT_Y}
            [] block = "STUETZSTELLENVERTEILUNG" -> {kw.STX, kw.EINHEIT_X})

FieldBlocks == DimBlocks \cup {"FESTWERT"}

\* a step that takes a line of the file, not its end, inside an element block
TakesFieldLine == pc \in FieldBlocks /\ TakesLine /\ pos < Len(file')

\* a token after the line's first word is rejected by float()
HasNonNumber(line) ==
    /\ Len(split1(line)) = 2
    /\ \E t \in Range(split(split1(line)[2])) : Raised(float(t))

\* the line starts with one of the words
StartsWithOneOf(line, words) == \E w \in words : startswith(line, w)

\* read has raised ValueError at the line and has stored nothing of it
RaisesValueError ==
    /\ pc' = "raised"
    /\ err' = "ValueError"
    /\ self' = self
    /\ found' = found
    /\ stx' = stx /\ sty' = sty /\ parameters' = parameters

\* C11 as stated: a token that is no number in a WERT, ST/X or ST/Y line of
\* any block, or in the WERT line of a FESTWERT, makes read raise.
C11_NonNumberRaisesInAnyBlock ==
    [][(/\ TakesFieldLine
        /\ StartsWithOneOf(Taken, IF pc = "FESTWERT" THEN {kw.WERT}
                                  ELSE {kw.WERT, kw.STX, kw.STY})
        /\ HasNonNumber(Taken))
           => pc' = "raised"]_vars

\* C11: a token that float() rejects in a WERT, ST/X or ST/Y line of a block
\* whose loop dispatches on that word (WERT in FESTWERT and FESTWERTEBLOCK,
\* WERT and ST/X in the characteristic lines, WERT, ST/X and ST/Y in the
\* maps, ST/X in STUETZSTELLENVERTEILUNG) makes read raise ValueError at that
\* line; nothing of the line is stored in the element, the vectors read so
\* far or the document.
C11_NonNumberRaises ==
    [][(/\ TakesFieldLine
        /\ StartsWithOneOf(Taken, {kw.WERT, kw.STX, kw.STY} \cap FieldWords(pc))
        /\ HasNonNumber(Taken))
           => RaisesValueError]_vars

\* read has raised ValueError at "ST/X 1 x" in a KENNLINIE block, and the 1
\* before the x is not among the ST/X values
C11_Witness ==
    /\ pc = "raised"
    /\ err = "ValueError"
    /\ pos = 3
    /\ file = <<L_format, kw.KENNLINIE \o L_dims_3, L_stx_1_x>>
    /\ stx = Some(<<>>)

-----------------------------------------------------------------------------
(* C12: lines that are not recognised *)

\* the words read() dispatches on at top level once the format is known
TopWords ==
    {kw.FUNKTIONEN, kw.FESTWERT_sp, kw.FESTWERTEBLOCK, kw.KENNLINIE, kw.FESTKENNLINIE,
     kw.GRUPPENKENNLINIE, kw.KENNFELD \o <<" ">>, kw.FESTKENNFELD \o <<" ">>,
     kw.GRUPPENKENNFELD \o <<" ">>, kw.STUETZSTELLENVERTEILUNG}

\* a step that takes a line which the loop it is read in does not recognise:
\* inside an element block a line that starts with none of the block's
\* words and is no comment; at top level, after the format line, a line that
\* is not blank, no comment and starts with none of the words opening a block
TakesUnrecognised ==
    \/ /\ TakesFieldLine
       /\ ~StartsWithOneOf(Taken, FieldWords(pc))
       /\ ~is_comment(Taken)
    \/ /\ pc = "top"
       /\ TakesLine
       /\ dcm_format # None
       /\ Taken # <<>>
       /\ ~is_comment(Taken)
       /\ ~StartsWithOneOf(Taken, TopWords)

-----------------------------------------------------------------------------
(* C13: termination *)

\* C13: read terminates on every finite input: it returns or it raises, also
\* when the input ends inside a FUNKTIONEN list or inside an element block.
C13_ReadTerminates == <>(pc \in {"returned", "raised"})

-----------------------------------------------------------------------------
(* C14: comments and axis mappings in the round trip *)

\* the collections of the characteristic lines and of the maps
LineLists ==
    {"characteristic_line_list", "fixed_characteristic_line_list",
     "group_characteristic_line_list"}

\* the file that a reader wrote has been read by a fresh reader
ReadBack == pc = "returned" /\ first # None

\* C14: when the file a reader wrote has been read back, every characteristic
\* line and map of the six kinds has the x_mapping, the y_mapping (maps) and
\* the comment of the element it was written from.
C14_MappingsAndCommentKept ==
    ReadBack =>
        \A l \in LineLists \cup MapLists :
            /\ Len(self[l]) = Len(Val(first)[l])
            /\ \A i \in 1..Len(self[l]) :
                   /\ self[l][i].comment = Val(first)[l][i].comment
                   /\ self[l][i].x_mapping = Val(first)[l][i].x_mapping
                   /\ l \in MapLists => self[l][i].y_mapping = Val(first)[l][i].y_mapping

-----------------------------------------------------------------------------
(* C15: the kinds in the round trip *)

\* the block keyword of the kind of a collection
KeywordOf(list) ==
    IF list = "parameter_list" THEN kw.FESTWERT
    ELSE kw[CHOOSE block \in DimBlocks : CollectionOf(block) = list]

\* the file has a line that opens a block of the kind of list for the name
OpenedAs(list, name) ==
    \E j \in 1..Len(file) : startswith(file[j], KeywordOf(list) \o <<" ">> \o name)

\* C15: in the file that a reader wrote, every element stands under the block
\* keyword of the collection it is in; and when that file has been read back,
\* the functions list and each of the nine collections have as many entries
\* as those of the reader that wrote it.
C15_KindsKept ==
    /\ pc = "written" =>
           \A l \in Range(ElementLists) :
               \A i \in 1..Len(self[l]) : OpenedAs(l, self[l][i].name)
    /\ ReadBack =>
           /\ Len(self.functions_list) = Len(Val(first).functions_list)
           /\ \A l \in Range(ElementLists) : Len(self[l]) = Len(Val(first)[l])

\* a file with a FESTKENNLINIE block has been written and read back: the one
\* element is a fixed characteristic line before and after
C15_Witness ==
    /\ ReadBack
    /\ Len(Val(first).fixed_characteristic_line_list) = 1
    /\ Len(self.fixed_characteristic_line_list) = 1
    /\ self.characteristic_line_list = <<>>

-----------------------------------------------------------------------------
(* C16: the order of elements that carry only a name *)

\* an element as its constructor leaves it
OnlyName(e) == e \in Created(e.name)

\* C16: for two elements of one class created with only a name, a < b is
\* True when a's name is lexicographically smaller than b's.
C16_NameOrder ==
    (/\ pc = "returned"
     /\ OnlyName(arg[1]) /\ OnlyName(arg[2])
     /\ str_lt(arg[1].name, arg[2].name))
        => ret = Return(TRUE)

-----------------------------------------------------------------------------
(* C17: the order of the written blocks *)

\* C17: the text that write() writes does not depend on the order in which
\* the elements were read: a reader that holds the same parameters in the
\* reverse order writes the same text.
C17_OrderIndependent ==
    pc = "written" =>
        DcmReader_str([self EXCEPT !.parameter_list = reversed(@)]) = DcmReader_str(self)

-----------------------------------------------------------------------------
(* C18: a file without a format line *)

\* C18: read does not return for a file without a KONSERVIERUNG_FORMAT line,
\* be it empty or made of comment lines and blank lines only.
C18_MissingFormatIsFatal ==
    pc = "returned" =>
        \E i \in 1..Len(file) : startswith(strip(file[i], Whitespace), kw.KONSERVIERUNG_FORMAT)

-----------------------------------------------------------------------------
(* C19: int and float in the written file *)

\* C19: the token that str() writes for a number which convert_value has
\* returned is converted by convert_value to a number of the same type and
\* the same value.
C19_TypeSurvives ==
    (pc = "returned" /\ ~Raised(ret) /\ ret.v.sp # "nan") =>
        /\ ~Raised(convert_value(num_str(ret.v)))
        /\ convert_value(num_str(ret.v)).v.t = ret.v.t
        /\ num_eq(convert_value(num_str(ret.v)).v, ret.v)

-----------------------------------------------------------------------------
(* C20: one reader, two calls of read *)

\* the header and the collections of a reader
Document(reader) == [reader EXCEPT !.file_header_finished = TRUE]

\* the second read() of the reader has returned
ReadTwice == pc = "returned" /\ first # None

\* C20: when read() has returned for the second time on one reader, for a
\* file of the same lines as the first, the header and every collection are
\* what a fresh reader held after reading these lines, and nothing else.
C20_DocumentsIndependent ==
    ReadTwice => Document(self) = Document(Val(first))

-----------------------------------------------------------------------------
(* C21: the file that write creates *)

\* the last four characters of path are ".dcm"
HasDcmSuffix(path) ==
    Len(path) >= 4 /\ \A i \in 1..4 : path[Len(path) - 4 + i] = Dcm[i]

\* C21: write(path) creates the file path when path ends with ".dcm" and
\* the file path + ".dcm" otherwise, its content is str(reader), and a read of
\* path + ".dcm" after a write under a path without the suffix finds that
\* content.
C21_WriteFile ==
    [][/\ (pc = "returned" /\ pc' = "written") =>
            /\ disk' # None
            /\ Val(disk').name = (IF HasDcmSuffix(arg) THEN arg ELSE arg \o Dcm)
            /\ Return(Val(disk').text) = DcmReader_str(self)
       /\ (~HasDcmSuffix(arg) /\ ReadFrom(arg \o Dcm)) =>
            /\ pc' = "top"
            /\ Return(concat(file')) = DcmReader_str(Val(first))]_vars

\* a document written under the name X has been opened for reading as X.dcm
C21_Witness ==
    /\ pc = "top"
    /\ pos = 0
    /\ arg = <<"X">>
    /\ disk # None
    /\ Val(disk).name = <<"X">> \o Dcm
    /\ Val(disk).text # <<>>

-----------------------------------------------------------------------------
(* C22: the vectors of a characteristic line *)

\* a step that reads the END line of a characteristic line
ClosesLine == pc \in LineBlocks /\ ReadsEnd

\* C22: when a characteristic line of any of the three kinds closes and the
\* numbers of all its ST/X lines, in file order, differ from one another,
\* values maps the i-th of them to the i-th of the numbers of all its WERT
\* lines, up to the shorter of the two vectors.
C22_VectorsPaired ==
    [][(ClosesLine /\ PairwiseDistinct(NumbersOf(BlockLines, kw.STX))) =>
        Added.values =
            [i \in 1..Min(Len(NumbersOf(BlockLines, kw.STX)),
                          Len(NumbersOf(BlockLines, kw.WERT))) |->
                [k |-> NumbersOf(BlockLines, kw.STX)[i],
                 v |-> NumbersOf(BlockLines, kw.WERT)[i]]]]_vars

\* a GRUPPENKENNLINIE has been closed after ST/X 1 2, ST/X 3, WERT 5 6 and
\* WERT 7 with the entries 1: 5, 2: 6, 3: 7
C22_Witness ==
    /\ pc = "top"
    /\ SubSeq(file, 2, Len(file))
           = <<kw.GRUPPENKENNLINIE \o L_dims_3, L_stx_1_2, L_stx_3, L_wert_5_6, L_wert_7, L_end>>
    /\ Len(self.group_characteristic_line_list) = 1
    /\ Len(self.group_characteristic_line_list[1].values) = 3
    /\ to_int(self.group_characteristic_line_list[1].values[3].k) = 3
    /\ to_int(self.group_characteristic_line_list[1].values[3].v) = 7

-----------------------------------------------------------------------------
(* C30: a characteristic line without a mismatch *)

\* a step that closes a characteristic line and reports no mismatch: as many
\* ST/X values and as many WERT values as declared
ClosesLineAsDeclared ==
    /\ ClosesLine
    /\ log' = log
    /\ Len(Val(stx)) = to_int(Val(found).x_dimension)
    /\ Len(Val(parameters)) = to_int(Val(found).x_dimension)

\* C30 as stated: a characteristic line that closes without a mismatch being
\* reported has exactly x_dimension entries.
C30_DeclaredEntries ==
    [][ClosesLineAsDeclared => Len(Added.values) = to_int(Val(found).x_dimension)]_vars

\* C30: a characteristic line that closes without a mismatch being reported
\* and whose ST/X values differ from one another has exactly x_dimension
\* entries.
C30_DeclaredDistinctEntries ==
    [][(ClosesLineAsDeclared /\ PairwiseDistinct(Val(stx))) =>
        Len(Added.values) = to_int(Val(found).x_dimension)]_vars

\* a KENNLINIE declared with 3 points has been closed with 3 entries and
\* nothing was reported
C30_Witness ==
    /\ pc = "top"
    /\ log = <<>>
    /\ startswith(file[2], kw.KENNLINIE)
    /\ Len(self.characteristic_line_list) = 1
    /\ to_int(self.characteristic_line_list[1].x_dimension) = 3
    /\ Len(self.characteristic_line_list[1].values) = 3

-----------------------------------------------------------------------------
(* C23: the variants *)

\* C23: parse_variant on the line VAR <name>=<rhs> returns the entry of the
\* name with convert_value(rhs) when convert_value takes rhs, and otherwise
\* with rhs less the double quotes and spaces around it; it does not raise.
C23_ParseVariant ==
    pc = "returned" =>
        \A name \in VariantNames, rhs \in VariantValues :
            arg = VariantLine(name, rhs) =>
                /\ ~Raised(ret)
                /\ ret.v.k = strip(name, {" "})
                /\ ret.v.v = IF Raised(convert_value(rhs))
                             THEN StrVal(strip(rhs, {"\"", " "}))
                             ELSE NumVal(convert_value(rhs).v)

\* parse_variant has returned the str b for the line VAR a="b"
C23_Witness ==
    /\ pc = "returned"
    /\ arg = VariantLine(<<"a">>, <<"\"", "b", "\"">>)
    /\ ret = Return([k |-> <<"a">>, v |-> StrVal(<<"b">>)])

-----------------------------------------------------------------------------
(* C24: vectors printed six values to a line *)

\* the lines of the text that _print_values has returned
Printed == splitlines_keep(ret.v)

\* the values that the c-th printed line carries after its key
Carried(c) == Tail(split(Printed[c]))

\* the values of all printed lines, line by line and left to right
AllCarried == concat([c \in 1..Len(Printed) |-> Carried(c)])

\* the entries of a vector as they are printed
Formatted(kind, entries) == [i \in 1..Len(entries) |-> fmt_base(kind, entries[i])]

\* the strings of a vector of strings cut at their newlines, the numbers of a
\* vector of numbers
Entries(value) ==
    IF value.kind = "U"
    THEN concat([i \in 1..Len(value.items) |-> split_at(value.items[i], "\n")])
    ELSE value.items

\* the printed lines are those of entries, six to a line under the key
PrintedSixToALine(entries) ==
    /\ Len(Printed) = (Len(entries) + 5) \div 6
    /\ \A c \in 1..Len(Printed) :
           /\ startswith(Printed[c], <<" ", " ">> \o arg.key \o <<" ">>)
           /\ Len(Carried(c)) <= 6
           /\ c < Len(Printed) => Len(Carried(c)) = 6
    /\ AllCarried = Formatted(arg.value.kind, entries)

-----------------------------------------------------------------------------
(* C25: comment lines and mapping lines of a block *)

\* a step that takes a comment line inside a characteristic line or map
TakesComment ==
    /\ pc \in LineBlocks \cup MapBlocks
    /\ TakesLine
    /\ pos < Len(file')
    /\ is_comment(Taken)

\* the content of the comment line taken, after its marker
Content == strip(Tail(Taken), Whitespace)

\* what follows the word at the start of the content
AfterWord == lstrip(SubSeq(Content, 5, Len(Content)), Whitespace)

\* the content starts with the word and whitespace after it
StartsWithWord(word) ==
    startswith(Content, word) /\ Len(Content) > 4 /\ Content[5] \in Whitespace

\* the comment of an element with one more line
CommentWith(e, text) ==
    Some((IF e.comment = None THEN <<>> ELSE Val(e.comment)) \o text \o <<"\n">>)

\* C25: a comment line of a characteristic line or map whose content starts
\* with the word SSTX sets x_mapping and leaves the comment, one whose
\* content starts with the word SSTY does the same for y_mapping in a map,
\* and every other comment line is added to the comment and leaves the
\* mappings.
C25_MappingOrComment ==
    [][TakesComment =>
        IF StartsWithWord(kw.SSTX)
        THEN /\ Val(found').x_mapping = Some(AfterWord)
             /\ Val(found').comment = Val(found).comment
        ELSE IF pc \in MapBlocks /\ StartsWithWord(kw.SSTY)
        THEN /\ Val(found').y_mapping = Some(AfterWord)
             /\ Val(found').comment = Val(found).comment
        ELSE /\ Val(found').comment = CommentWith(Val(found), Content)
             /\ Val(found').x_mapping = Val(found).x_mapping
             /\ pc \in MapBlocks => Val(found').y_mapping = Val(found).y_mapping]_vars

-----------------------------------------------------------------------------
(* C26: the functions in the written file *)

\* C26: when the file a reader wrote has been read back, every function of
\* the reader that wrote it is a function of the reader that read it, with
\* the same name, the same version and the same description.
C26_FunctionsSurvive ==
    ReadBack =>
        \A i \in 1..Len(Val(first).functions_list) :
            \E j \in 1..Len(self.functions_list) :
                /\ self.functions_list[j].name = Val(first).functions_list[i].name
                /\ self.functions_list[j].version = Val(first).functions_list[i].version
                /\ self.functions_list[j].description
                       = Val(first).functions_list[i].description

-----------------------------------------------------------------------------
(* C27: each block in the collection of its keyword *)

\* the words of a line
Words(line) == split(line)

\* the collection that an opening keyword selects, "" for any other word
ListOf(word) ==
    IF word = kw.FESTWERT THEN "parameter_list"
    ELSE IF \E b \in DimBlocks : kw[b] = word
    THEN CollectionOf(CHOOSE b \in DimBlocks : kw[b] = word)
    ELSE ""

\* the indexes of the lines read that open a block of the collection whose
\* END line, the next line, has been read too
ClosedBlocks(list) ==
    LET Closed(i) ==
            /\ i < Len(LinesRead)
            /\ Words(LinesRead[i]) # <<>>
            /\ ListOf(Words(LinesRead[i])[1]) = list
            /\ LinesRead[i + 1] = L_end
    IN  SelectSeq([i \in 1..Len(LinesRead) |-> i], Closed)

\* C27: at every moment of read, each collection holds, in file order, one
\* element for every block opened with the collection's keyword whose END
\* line has been read, under the block's name, and nothing else.
C27_BlocksInTheirCollections ==
    pc # "raised" =>
        \A k \in 1..Len(ElementLists) :
            [j \in 1..Len(self[ElementLists[k]]) |-> self[ElementLists[k]][j].name]
                = [j \in 1..Len(ClosedBlocks(ElementLists[k])) |->
                      Words(LinesRead[ClosedBlocks(ElementLists[k])[j]])[2]]

-----------------------------------------------------------------------------
(* C28: write() on a document that read() returned *)

\* C28: write() on the reader whose read() has returned normally completes:
\* no step of write() ends in an exception, whatever the elements of the
\* document lack.
C28_WriteCompletes ==
    [][(pc = "returned" /\ first = None /\ disk' # disk) => pc' # "raised"]_vars

-----------------------------------------------------------------------------
(* C29: the value 0 in the written file *)

\* C29: when the file a reader wrote has been read back, every FESTWERT that
\* had a numeric value, 0 included, has that value again, and its variants
\* are the numbers they were.
C29_NumericValueSurvives ==
    ReadBack =>
        \A i \in 1..Len(Val(first).parameter_list) :
            Val(first).parameter_list[i].value # None =>
                /\ i <= Len(self.parameter_list)
                /\ self.parameter_list[i].value = Val(first).parameter_list[i].value
                /\ self.parameter_list[i].variants
                       = Val(first).parameter_list[i].variants

=============================================================================
